---- MODULE Spec2Model ----
(***************************************************************************)
(* BT-RADS agent system: the decision flowchart, the quantitative rule     *)
(* functions, the extraction agents, the two orchestrators                 *)
(* (AgentOrchestrator and LangGraphOrchestrator), clinician validation     *)
(* and the patient service that starts processing tasks.                   *)
(*                                                                         *)
(* Units: percentages are integers in tenths of a percent (-480 = -48.0%), *)
(* confidences are integers in hundredths (95 = 0.95), days are integers.  *)
(* Optional values (Python None) are <<>>, a present value x is <<x>>.     *)
(***************************************************************************)
EXTENDS Integers, Sequences, FiniteSets, TLC

(* ------------------------------------------------------------------ *)
(* Bounds                                                              *)
(* ------------------------------------------------------------------ *)
MaxTasks == 2

(* ------------------------------------------------------------------ *)
(* Program constants                                                   *)
(* ------------------------------------------------------------------ *)
PCT_STABLE == 100
PCT_MAJOR == 400
DAYS_WINDOW == 90
DAYS_DEFAULT == 999
RULE_CONFIDENCE == 95
LG_VALIDATE_BELOW == 80
max_retries == 3

None == <<>>
Some(x) == <<x>>
IsNone(o) == o = <<>>
Get(o) == o[1]

(* ------------------------------------------------------------------ *)
(* Extracted values.  k is the Python type of the value:               *)
(*   "str"   a string v                                                *)
(*   "prior" the dict {"has_suitable_prior": v}, v in {"True","False"} *)
(*   "med"   the dict {"steroid_status": v, "avastin_status": w}       *)
(*   "err"   the dict {"error": True, "message": ...}                  *)
(*   "dict"  any other dict (none of the keys the routers read)        *)
(* ------------------------------------------------------------------ *)
Str(s) == [k |-> "str", v |-> s, w |-> ""]
PriorDict(b) == [k |-> "prior", v |-> b, w |-> ""]
MedDict(s, a) == [k |-> "med", v |-> s, w |-> a]
ErrDict == [k |-> "err", v |-> "", w |-> ""]
OtherDict == [k |-> "dict", v |-> "", w |-> ""]

\* str(value): the key _determine_next_node looks up.  The repr of a dict
\* starts with "{" and is never a transition key.
PyStr(val) == IF val.k = "str" THEN val.v ELSE "{dict}"

(* ------------------------------------------------------------------ *)
(* utils/btrads_calculations.py                                        *)
(* ------------------------------------------------------------------ *)
Abs(x) == IF x < 0 THEN -x ELSE x
Max(a, b) == IF a >= b THEN a ELSE b

MIN_SIGNIFICANT_ABS_CHANGE == 10

\* a direction that tests the percentage before the absolute change
get_direction_percent_first(pct_change, abs_change) ==
    IF pct_change > PCT_STABLE THEN "up"
    ELSE IF pct_change < -PCT_STABLE THEN "down"
    ELSE "stable"

\* abs_change: optional absolute change in tenths of a ml
get_direction_with_validation(pct_change, abs_change) ==
    IF ~IsNone(abs_change) /\ Abs(Get(abs_change)) < MIN_SIGNIFICANT_ABS_CHANGE
    THEN "stable"
    ELSE IF pct_change > PCT_STABLE THEN "up"
    ELSE IF pct_change < -PCT_STABLE THEN "down"
    ELSE "stable"

\* a rule in which FLAIR decides a mixed pattern
apply_flair_priority_rule(flair_change_pct, enh_change_pct, flair_abs, enh_abs) ==
    LET flair_direction == get_direction_with_validation(flair_change_pct, flair_abs)
        enh_direction == get_direction_with_validation(enh_change_pct, enh_abs)
    IN  IF flair_direction # enh_direction /\ flair_direction # "stable"
           /\ enh_direction # "stable"
        THEN (IF flair_direction = "up" THEN "worse" ELSE "improved")
        ELSE IF flair_direction = "up" \/ enh_direction = "up" THEN "worse"
        ELSE IF flair_direction = "down" \/ enh_direction = "down" THEN "improved"
        ELSE "unchanged"

\* a rule in which a stable component outweighs the other one
apply_stable_priority_rule(flair_change_pct, enh_change_pct, flair_abs, enh_abs) ==
    LET flair_direction == get_direction_with_validation(flair_change_pct, flair_abs)
        enh_direction == get_direction_with_validation(enh_change_pct, enh_abs)
    IN  IF flair_direction # enh_direction /\ flair_direction # "stable"
           /\ enh_direction # "stable"
        THEN (IF enh_direction = "up" THEN "worse" ELSE "improved")
        ELSE IF flair_direction = "up" /\ enh_direction = "up" THEN "worse"
        ELSE IF flair_direction = "down" /\ enh_direction = "down" THEN "improved"
        ELSE "unchanged"

apply_enhancement_priority_rule(flair_change_pct, enh_change_pct, flair_abs, enh_abs) ==
    LET flair_direction == get_direction_with_validation(flair_change_pct, flair_abs)
        enh_direction == get_direction_with_validation(enh_change_pct, enh_abs)
    IN  IF flair_direction # enh_direction /\ flair_direction # "stable"
           /\ enh_direction # "stable"
        THEN (IF enh_direction = "up" THEN "worse" ELSE "improved")
        ELSE IF flair_direction = "up" \/ enh_direction = "up" THEN "worse"
        ELSE IF flair_direction = "down" \/ enh_direction = "down" THEN "improved"
        ELSE "unchanged"

\* a timing rule whose window includes day 90
determine_radiation_timing_inclusive(days_since_radiation) ==
    IF days_since_radiation < 0 THEN "unknown"
    ELSE IF days_since_radiation <= DAYS_WINDOW THEN "within_90_days"
    ELSE "beyond_90_days"

determine_radiation_timing(days_since_radiation) ==
    IF days_since_radiation < 0 THEN "unknown"
    ELSE IF days_since_radiation < DAYS_WINDOW THEN "within_90_days"
    ELSE "beyond_90_days"

\* a component counted as worse from 10% on
determine_component_worsening_inclusive(flair_change_pct, enh_change_pct) ==
    LET flair_worse == flair_change_pct >= PCT_STABLE
        enh_worse == enh_change_pct >= PCT_STABLE
    IN  IF flair_worse /\ enh_worse THEN "flair_and_enh"
        ELSE IF flair_worse \/ enh_worse THEN "flair_or_enh"
        ELSE "unknown"

determine_component_worsening(flair_change_pct, enh_change_pct) ==
    LET flair_worse == flair_change_pct > PCT_STABLE
        enh_worse == enh_change_pct > PCT_STABLE
    IN  IF flair_worse /\ enh_worse THEN "flair_and_enh"
        ELSE IF flair_worse \/ enh_worse THEN "flair_or_enh"
        ELSE "unknown"

\* a 40% rule that is major only above 40%
apply_40_percent_rule_exclusive(flair_change_pct, enh_change_pct) ==
    LET max_increase == Max(flair_change_pct, enh_change_pct)
    IN  IF max_increase > PCT_MAJOR THEN "major"
        ELSE IF max_increase > 0 THEN "minor"
        ELSE "unknown"

apply_40_percent_rule(flair_change_pct, enh_change_pct) ==
    LET max_increase == Max(flair_change_pct, enh_change_pct)
    IN  IF max_increase >= PCT_MAJOR THEN "major"
        ELSE IF max_increase > 0 THEN "minor"
        ELSE "unknown"

(* ------------------------------------------------------------------ *)
(* utils/flowchart.py                                                  *)
(* ------------------------------------------------------------------ *)
Extraction(agent, next_nodes, default_next) ==
    [type |-> "data_extraction", agent |-> agent, next_nodes |-> next_nodes,
     default_next |-> default_next, btrads_score |-> ""]
Outcome(score) ==
    [type |-> "outcome", agent |-> "", next_nodes |-> <<>>,
     default_next |-> "", btrads_score |-> score]

_build_flowchart ==
    [node_1_suitable_prior |-> Extraction("prior_assessment",
        [yes |-> "node_2_imaging_assessment", no |-> "outcome_bt_0",
         unknown |-> "node_2_imaging_assessment"], "node_2_imaging_assessment"),
     outcome_bt_0 |-> Outcome("0"),
     node_2_imaging_assessment |-> Extraction("imaging_comparison",
        [improved |-> "node_3a_medications", unchanged |-> "outcome_bt_2",
         worse |-> "node_4_time_since_xrt", unknown |-> "outcome_bt_2"], "outcome_bt_2"),
     outcome_bt_2 |-> Outcome("2"),
     node_3a_medications |-> Extraction("medication_effects",
        [avastin |-> "node_3b_avastin_response",
         increasing_steroids |-> "node_3c_steroid_effects",
         neither |-> "outcome_bt_1a", unknown |-> "outcome_bt_1a"], "outcome_bt_1a"),
     node_3b_avastin_response |-> Extraction("avastin_response",
        [first_study_enh_only |-> "outcome_bt_1b", sustained_improvement |-> "outcome_bt_1a",
         unknown |-> "outcome_bt_1b"], "outcome_bt_1b"),
     node_3c_steroid_effects |-> Extraction("steroid_effects",
        [likely_steroid_effect |-> "outcome_bt_1b", unlikely_steroid_effect |-> "outcome_bt_1a",
         unknown |-> "outcome_bt_1b"], "outcome_bt_1b"),
     outcome_bt_1a |-> Outcome("1a"),
     outcome_bt_1b |-> Outcome("1b"),
     node_4_time_since_xrt |-> Extraction("radiation_timeline",
        [within_90_days |-> "outcome_bt_3a", beyond_90_days |-> "node_5_what_is_worse",
         unknown |-> "node_5_what_is_worse"], "node_5_what_is_worse"),
     outcome_bt_3a |-> Outcome("3a"),
     node_5_what_is_worse |-> Extraction("component_analysis",
        [flair_or_enh |-> "outcome_bt_3b", flair_and_enh |-> "node_6_how_much_worse",
         unknown |-> "outcome_bt_3b"], "outcome_bt_3b"),
     outcome_bt_3b |-> Outcome("3b"),
     node_6_how_much_worse |-> Extraction("extent_analysis",
        [major |-> "outcome_bt_4", minor |-> "node_7_progressive",
         unknown |-> "outcome_bt_3c"], "outcome_bt_3c"),
     node_7_progressive |-> Extraction("progression_pattern",
        [yes |-> "outcome_bt_4", no |-> "outcome_bt_3c",
         unknown |-> "outcome_bt_3c"], "outcome_bt_3c"),
     outcome_bt_3c |-> Outcome("3c"),
     outcome_bt_4 |-> Outcome("4")]

NodeIds == DOMAIN _build_flowchart
get_node(node_id) == _build_flowchart[node_id]
is_terminal(node_id) == get_node(node_id).type = "outcome"

\* a lookup that takes the transitions out of the table it reads
flowchart_pop_node(nodes, node_id) ==
    [node |-> nodes[node_id], nodes |-> [nodes EXCEPT ![node_id].next_nodes = <<>>]]

\* self.flowchart.get_node(node_id) on the table nodes: the node found
\* and the table after the call
flowchart_get_node(nodes, node_id) ==
    [node |-> nodes[node_id], nodes |-> nodes]

\* returns None (<<>>) for a terminal node, else Some(next node id)
get_next_node(current_node_id, decision) ==
    LET node == get_node(current_node_id)
    IN  IF node.type = "outcome" THEN None
        ELSE IF decision \in DOMAIN node.next_nodes
             THEN Some(node.next_nodes[decision])
             ELSE Some(node.default_next)

\* a lookup without the default: node["next_nodes"].get(str(value)), which
\* yields nothing ("") for a key the transition map lacks
_determine_next_node_no_default(node, value) ==
    IF PyStr(value) \in DOMAIN node.next_nodes
    THEN node.next_nodes[PyStr(value)]
    ELSE ""

_determine_next_node(node, value) ==
    IF PyStr(value) \in DOMAIN node.next_nodes
    THEN node.next_nodes[PyStr(value)]
    ELSE node.default_next

BTRADSScore == {"0", "1a", "1b", "2", "3a", "3b", "3c", "4"}


(* ------------------------------------------------------------------ *)
(* Context prepared for the agents (_prepare_context).  The orchestr-  *)
(* ators never put the baseline/follow-up volumes into the context, so *)
(* flair_abs / enh_abs (the absolute changes) are None there.          *)
(* ------------------------------------------------------------------ *)
Context(flair, enh, days, flair_abs, enh_abs) ==
    [flair_change_pct |-> flair, enhancement_change_pct |-> enh,
     days_since_radiation |-> days, flair_abs |-> flair_abs, enh_abs |-> enh_abs]

_prepare_context(data) ==
    Context(data.flair_change_percentage, data.enhancement_change_percentage,
            data.days_since_radiation, None, None)

(* ------------------------------------------------------------------ *)
(* One LLM attempt.  fmt: "json" a JSON object, "text" unparseable     *)
(* text (handled by the pattern-matching fallback), "raise" the call   *)
(* or the parsing threw.  a is the main category field, b and c the    *)
(* auxiliary fields, flag an agent-specific boolean field, conf the    *)
(* "confidence" field in hundredths.                                   *)
(* ------------------------------------------------------------------ *)
Response(fmt, a, b, c, flag, conf) ==
    [fmt |-> fmt, a |-> a, b |-> b, c |-> c, flag |-> flag, conf |-> conf]
Raise == Response("raise", "", "", "", FALSE, 0)

Parsed(value, confidence, rule) ==
    [value |-> value, confidence |-> confidence, rule |-> rule]

Normalize(s, valid) == IF s \in valid THEN s ELSE "unknown"
Min(a, b) == IF a <= b THEN a ELSE b
HasVolumes(ctx) ==
    ~IsNone(ctx.flair_change_pct) /\ ~IsNone(ctx.enhancement_change_pct)

(* agents/extraction/imaging_comparison_vllm.py                        *)
\* a = overall_assessment, b = enhancement_change, c = flair_change,
\* flag = new_lesions
ImagingComparison_parse_response(r, ctx) ==
    IF HasVolumes(ctx)
    THEN Parsed(Str(apply_enhancement_priority_rule(
                    Get(ctx.flair_change_pct), Get(ctx.enhancement_change_pct),
                    ctx.flair_abs, ctx.enh_abs)), RULE_CONFIDENCE, TRUE)
    ELSE IF r.fmt = "json"
    THEN LET overall0 == Normalize(r.a, {"improved", "unchanged", "worse", "unknown"})
             overall1 == IF overall0 = "unknown" /\ r.c # "unknown" /\ r.b # "unknown"
                         THEN (IF r.b # "unchanged" THEN r.b ELSE r.c)
                         ELSE overall0
             overall == IF r.flag THEN "worse" ELSE overall1
         IN  Parsed(Str(overall), r.conf, FALSE)
    ELSE IF r.a \in {"improved", "unchanged", "worse"}
         THEN Parsed(Str(r.a), 50, FALSE)
         ELSE Parsed(Str("unknown"), 20, FALSE)

ImagingComparison_validate_extraction(value) ==
    value.k = "str" /\ value.v \in {"improved", "unchanged", "worse", "unknown"}

(* agents/extraction/component_analysis_vllm.py                        *)
\* a = component_status, b = "true" iff flair_worse, c = "true" iff
\* enhancement_worse, flag = new_enhancement
ComponentAnalysis_parse_response(r, ctx) ==
    LET calc == IF HasVolumes(ctx)
                THEN determine_component_worsening(Get(ctx.flair_change_pct),
                                                   Get(ctx.enhancement_change_pct))
                ELSE "unknown"
    IN  IF calc # "unknown" THEN Parsed(Str(calc), RULE_CONFIDENCE, TRUE)
        ELSE IF r.fmt = "json"
        THEN LET flair_worse == r.b = "true"
                 enh_worse == r.c = "true"
                 status0 == Normalize(r.a, {"flair_or_enh", "flair_and_enh", "unknown"})
                 status1 == IF flair_worse /\ enh_worse THEN "flair_and_enh"
                            ELSE IF flair_worse \/ enh_worse THEN "flair_or_enh"
                            ELSE status0
                 status == IF r.flag
                           THEN (IF flair_worse THEN "flair_and_enh" ELSE "flair_or_enh")
                           ELSE status1
             IN  Parsed(Str(status), r.conf, FALSE)
        ELSE IF r.b = "true" /\ r.c = "true" THEN Parsed(Str("flair_and_enh"), 50, FALSE)
        ELSE IF r.b = "true" \/ r.c = "true" THEN Parsed(Str("flair_or_enh"), 50, FALSE)
        ELSE Parsed(Str("unknown"), 20, FALSE)

ComponentAnalysis_validate_extraction(value) ==
    value.k = "str" /\ value.v \in {"flair_or_enh", "flair_and_enh", "unknown"}

\* an extent parser that asks the rule only when the extractor's answer is
\* "unknown": the opposite trust ordering
ExtentAnalysis_parse_extractor_first(r, ctx) ==
    LET calc == IF HasVolumes(ctx)
                THEN apply_40_percent_rule(Get(ctx.flair_change_pct),
                                           Get(ctx.enhancement_change_pct))
                ELSE "unknown"
        extent == IF r.a \in {"major", "minor"} THEN r.a ELSE "unknown"
    IN  IF extent # "unknown" THEN Parsed(Str(extent), r.conf, FALSE)
        ELSE IF calc # "unknown" THEN Parsed(Str(calc), RULE_CONFIDENCE, TRUE)
        ELSE Parsed(Str("unknown"), 20, FALSE)

(* agents/extraction/extent_analysis_vllm.py                           *)
\* a = extent_classification, b = class of percentage_increase
\* ("ge40", "lt40" for 0 < p < 40, "" when absent or not positive),
\* flag = percentage_source is "text"
ExtentAnalysis_parse_response(r, ctx) ==
    LET calc == IF HasVolumes(ctx)
                THEN apply_40_percent_rule(Get(ctx.flair_change_pct),
                                           Get(ctx.enhancement_change_pct))
                ELSE "unknown"
    IN  IF calc # "unknown" THEN Parsed(Str(calc), RULE_CONFIDENCE, TRUE)
        ELSE IF r.fmt = "json"
        THEN LET extent0 == Normalize(r.a, {"major", "minor", "unknown"})
                 extent == IF r.b = "ge40" THEN "major"
                           ELSE IF r.b = "lt40" THEN "minor"
                           ELSE extent0
                 confidence == IF r.b # "" /\ r.flag
                               THEN Min((r.conf * 12) \div 10, 100) ELSE r.conf
             IN  Parsed(Str(extent), confidence, FALSE)
        ELSE IF r.b = "ge40" THEN Parsed(Str("major"), 60, FALSE)
        ELSE IF r.b = "lt40" THEN Parsed(Str("minor"), 60, FALSE)
        ELSE IF r.a \in {"major", "minor"} THEN Parsed(Str(r.a), 50, FALSE)
        ELSE Parsed(Str("unknown"), 20, FALSE)

ExtentAnalysis_validate_extraction(value) ==
    value.k = "str" /\ value.v \in {"major", "minor", "unknown"}


(* agents/extraction/prior_assessment_vllm.py                          *)
\* a = prior_available (json) or the matched pattern (text)
PriorAssessment_parse_response(r, ctx) ==
    IF r.fmt = "json"
    THEN LET prior_status == Normalize(r.a, {"yes", "no", "unknown"})
         IN  Parsed(Str(prior_status),
                    IF prior_status = "unknown" THEN (r.conf * 7) \div 10 ELSE r.conf,
                    FALSE)
    ELSE IF r.a = "no" THEN Parsed(Str("no"), 60, FALSE)
    ELSE IF r.a = "yes" THEN Parsed(Str("yes"), 60, FALSE)
    ELSE IF r.a = "interval" THEN Parsed(Str("yes"), 50, FALSE)
    ELSE Parsed(Str("unknown"), 30, FALSE)

(* agents/extraction/medication_status_vllm.py                         *)
\* a = steroid_status, b = avastin_status
MedicationStatus_parse_response(r, ctx) ==
    IF r.fmt = "json"
    THEN LET unknown_count == (IF r.a = "unknown" THEN 1 ELSE 0)
                              + (IF r.b = "unknown" THEN 1 ELSE 0)
         IN  Parsed(MedDict(r.a, r.b), (r.conf * (10 - 3 * unknown_count)) \div 10, FALSE)
    ELSE Parsed(MedDict(r.a, r.b), 40, FALSE)

MedicationStatus_validate_extraction(value) ==
    /\ value.k = "med"
    /\ value.v \in {"none", "stable", "increasing", "decreasing", "started", "unknown"}
    /\ value.w \in {"none", "ongoing", "first_treatment", "started", "unknown"}

(* agents/extraction/radiation_timeline_vllm.py                        *)
\* a = timeline_status (json) or the matched pattern (text)
RadiationTimeline_parse_response(r, ctx) ==
    IF ~IsNone(ctx.days_since_radiation) /\ Get(ctx.days_since_radiation) >= 0
    THEN Parsed(Str(determine_radiation_timing(Get(ctx.days_since_radiation))),
                RULE_CONFIDENCE, TRUE)
    ELSE IF r.fmt = "json"
    THEN Parsed(Str(Normalize(r.a, {"within_90_days", "beyond_90_days",
                                    "no_radiation", "unknown"})), r.conf, FALSE)
    ELSE IF r.a \in {"within_90_days", "beyond_90_days"} THEN Parsed(Str(r.a), 50, FALSE)
    ELSE IF r.a = "no_radiation" THEN Parsed(Str("no_radiation"), 60, FALSE)
    ELSE Parsed(Str("unknown"), 20, FALSE)

(* agents/extraction/progression_pattern_vllm.py                       *)
\* a = progression_pattern (json) or the matched pattern (text)
ProgressionPattern_parse_response(r, ctx) ==
    IF r.fmt = "json"
    THEN Parsed(Str(Normalize(r.a, {"yes", "no", "unknown"})), r.conf, FALSE)
    ELSE IF r.a \in {"yes", "no"} THEN Parsed(Str(r.a), 50, FALSE)
    ELSE Parsed(Str("unknown"), 20, FALSE)

AgentTypes == {"prior_assessment", "imaging_comparison", "medication_status",
               "radiation_timeline", "component_analysis", "extent_analysis",
               "progression_pattern"}

parse_response(agent, r, ctx) ==
    CASE agent = "prior_assessment" -> PriorAssessment_parse_response(r, ctx)
      [] agent = "imaging_comparison" -> ImagingComparison_parse_response(r, ctx)
      [] agent = "medication_status" -> MedicationStatus_parse_response(r, ctx)
      [] agent = "radiation_timeline" -> RadiationTimeline_parse_response(r, ctx)
      [] agent = "component_analysis" -> ComponentAnalysis_parse_response(r, ctx)
      [] agent = "extent_analysis" -> ExtentAnalysis_parse_response(r, ctx)
      [] agent = "progression_pattern" -> ProgressionPattern_parse_response(r, ctx)

validate_extraction(agent, value) ==
    CASE agent = "prior_assessment" -> value.k = "str" /\ value.v \in {"yes", "no", "unknown"}
      [] agent = "imaging_comparison" -> ImagingComparison_validate_extraction(value)
      [] agent = "medication_status" -> MedicationStatus_validate_extraction(value)
      [] agent = "radiation_timeline" ->
             value.k = "str" /\ value.v \in {"within_90_days", "beyond_90_days",
                                             "no_radiation", "unknown"}
      [] agent = "component_analysis" -> ComponentAnalysis_validate_extraction(value)
      [] agent = "extent_analysis" -> ExtentAnalysis_validate_extraction(value)
      [] agent = "progression_pattern" -> value.k = "str" /\ value.v \in {"yes", "no", "unknown"}

confidence_threshold(agent) ==
    CASE agent \in {"prior_assessment", "radiation_timeline"} -> 80
      [] agent = "medication_status" -> 70
      [] OTHER -> 75

(* ------------------------------------------------------------------ *)
(* AgentResult (models/agent.py).  error: the value is the error dict; *)
(* missing: missing_info is non-empty; errnote: the reasoning text     *)
(* reports the failure; rule: the value came from a rule function.     *)
(* ------------------------------------------------------------------ *)
AgentResult(value, confidence, error, missing, errnote, rule) ==
    [value |-> value, confidence |-> confidence, error |-> error,
     missing |-> missing, errnote |-> errnote, rule |-> rule]

(* agents/base_vllm.py                                                 *)
VLLM_create_error_result == AgentResult(ErrDict, 0, TRUE, TRUE, TRUE, FALSE)

_is_unknown_value(value) ==
    \/ value.k = "str" /\ value.v \in {"unknown", "not found", "n/a", ""}
    \/ value.k = "med" /\ value.v = "unknown" /\ value.w = "unknown"

\* the retry loop of VLLMBaseAgent.extract; attempts[i] is the outcome of
\* attempt i; cur is the last parsed extraction (None before the first)
RECURSIVE VLLM_retry_loop(_, _, _, _, _)
VLLM_retry_loop(agent, attempts, ctx, i, cur) ==
    IF i > max_retries THEN cur
    ELSE IF attempts[i].fmt = "raise"
    THEN (IF i = max_retries THEN None
          ELSE VLLM_retry_loop(agent, attempts, ctx, i + 1, cur))
    ELSE LET p == parse_response(agent, attempts[i], ctx)
             is_valid == validate_extraction(agent, p.value)
         IN  IF is_valid /\ p.confidence >= confidence_threshold(agent)
             THEN Some(p)
             ELSE VLLM_retry_loop(agent, attempts, ctx, i + 1,
                      Some(IF is_valid THEN p
                           ELSE [p EXCEPT !.confidence = (@ * 8) \div 10]))

VLLM_extract(agent, attempts, ctx) ==
    LET cur == VLLM_retry_loop(agent, attempts, ctx, 1, None)
    IN  IF IsNone(cur) \/ Get(cur).confidence \notin 0..100
        THEN VLLM_create_error_result
        ELSE AgentResult(Get(cur).value, Get(cur).confidence, FALSE,
                         \/ Get(cur).confidence < confidence_threshold(agent)
                         \/ _is_unknown_value(Get(cur).value),
                         FALSE, Get(cur).rule)

(* agents/base_simple.py and agents/extraction/<agent>.py              *)
\* r is what _call_llm produced: fmt "json" the parsed object, "raise" the
\* error response returned after three failed attempts, "list" a JSON
\* value that is not an object (the agent then throws and returns
\* _create_error_result)
Simple_create_error_result == AgentResult(ErrDict, 0, TRUE, FALSE, TRUE, FALSE)

Simple_extract(agent, r, ctx) ==
    IF r.fmt = "list" \/ (r.fmt = "json" /\ r.conf \notin 0..100)
    THEN Simple_create_error_result
    ELSE LET failed == r.fmt # "json"
             confidence == IF failed THEN 0 ELSE r.conf
             value ==
               CASE agent = "prior_assessment" ->
                      PriorDict(IF ~failed /\ r.a = "true" THEN "True" ELSE "False")
                 [] agent = "imaging_comparison" ->
                      LET assessment == IF failed THEN "unknown" ELSE r.a
                          flair_dir == get_direction_with_validation(
                                           Get(ctx.flair_change_pct), None)
                          enh_dir == get_direction_with_validation(
                                           Get(ctx.enhancement_change_pct), None)
                      IN  IF assessment # "unknown" /\ HasVolumes(ctx)
                             /\ flair_dir # enh_dir /\ flair_dir # "stable"
                             /\ enh_dir # "stable"
                          THEN Str(IF enh_dir = "up" THEN "worse" ELSE "improved")
                          ELSE Str(assessment)
                 [] agent = "medication_status" ->
                      IF failed THEN MedDict("unknown", "unknown") ELSE MedDict(r.a, r.b)
                 [] OTHER -> OtherDict
         IN  AgentResult(value, confidence, FALSE, FALSE, failed, FALSE)


(* ------------------------------------------------------------------ *)
(* State                                                               *)
(* ------------------------------------------------------------------ *)
VARIABLES
    orch,             \* ORCHESTRATOR_MODE: "simple" (AgentOrchestrator) or "langgraph"
    agent_mode,       \* AGENT_MODE: "vllm" or "mock" (LangGraphOrchestrator only)
    service,          \* "patient_service" or "patient_service_sqlite"
    failing,          \* the agents whose language-model calls fail
    task,             \* the asyncio tasks and start requests, by slot
    processing_tasks, \* PatientService.processing_tasks: patient -> slot, 0 = absent
    active_sessions,  \* AgentOrchestrator.active_sessions: patient -> session, 0 = absent
    sess,             \* the session dicts, named by the task that created them
    events,           \* asyncio.Event of the pending validation created by a task
    lg,               \* the BTRADSState of each LangGraph run
    reply,            \* outcome of the last validate_result calls
    active_connections, \* WebSocketManager.active_connections: patient -> socket
    flowchart,        \* BTRADSFlowchart.nodes of the orchestrator, <<>> before __init__
    fin,              \* input of the pure function under evaluation
    fout              \* its output

vars == <<orch, agent_mode, service, failing, task, processing_tasks, active_sessions,
          sess, events, lg, reply, active_connections, flowchart, fin, fout>>
cfgvars == <<orch, agent_mode, service, failing>>
fnvars == <<fin, fout>>

Tasks == 1..MaxTasks
Patients == {"PT1", "PT2"}

\* what the clinical note of a patient says: the answers a working
\* language model reads from it, and the values a clinician submits
Note(prior, imaging, steroid, avastin, radiation, component, extent, progression) ==
    [prior |-> prior, imaging |-> imaging, steroid |-> steroid, avastin |-> avastin,
     radiation |-> radiation, component |-> component, extent |-> extent,
     progression |-> progression]

\* the stored patients (models/patient.py): PT1 improved, never
\* irradiated, no medication; PT2 without a suitable prior, volumes
\* within 10% of the baseline, 120 days after radiation
PatientData ==
    [PT1 |-> [flair_change_percentage |-> Some(-480),
              enhancement_change_percentage |-> Some(-250),
              days_since_radiation |-> None,
              note |-> Note("yes", "improved", "none", "none", "unknown", "unknown",
                            "unknown", "unknown")],
     PT2 |-> [flair_change_percentage |-> Some(50),
              enhancement_change_percentage |-> Some(-30),
              days_since_radiation |-> Some(120),
              note |-> Note("no", "unchanged", "stable", "none", "beyond_90_days",
                            "unknown", "unknown", "unknown")]]

\* the sets of failing agents the system is run with
FailingSets == {{}, {"imaging_comparison"}, AgentTypes}

\* AgentOrchestrator.__init__: the agents it registers
agents == {"prior_assessment", "imaging_comparison", "medication_status",
           "radiation_timeline", "component_analysis", "extent_analysis",
           "progression_pattern"}

NoResult == [kind |-> "none"]
Exception(what) == [kind |-> "exception", what |-> what]
\* confidences: the confidences averaged into confidence_score, in the
\* order of the results; notes[i]: result i carries an error annotation
BTRADSResult(score, confidences, notes, path, decisions) ==
    [kind |-> "result", score |-> score, confidences |-> confidences,
     notes |-> notes, path |-> path, decisions |-> decisions]

FreeTask == [pc |-> "free", patient |-> "", requested |-> FALSE, arg |-> "",
             node |-> "", sref |-> 0, wref |-> 0, held |-> <<>>,
             outcome |-> NoResult, hc |-> "none"]

NewSession(auto_validate) ==
    [path |-> <<>>, decisions |-> <<>>, results |-> <<>>,
     auto_validate |-> auto_validate, pending |-> None]
NoSession == NewSession(TRUE)

NewBTRADSState(validation_mode) ==
    [path |-> <<>>, decisions |-> <<>>, results |-> <<>>, confidence_scores |-> <<>>,
     pending_validations |-> <<>>, btrads_score |-> "",
     validation_mode |-> validation_mode]
NoBTRADSState == NewBTRADSState("")

\* reply: the outcome of the last validate_result call, and whether the
\* call before it was rejected for its validation id
NoReply == [outcome |-> "", after_mismatch |-> FALSE]
Reply(outcome) ==
    [outcome |-> outcome, after_mismatch |-> reply.outcome = "Validation ID mismatch"]

Init ==
    /\ \E c \in {<<"simple", "mock">>, <<"langgraph", "vllm">>, <<"langgraph", "mock">>} :
          orch = c[1] /\ agent_mode = c[2]
    /\ service \in {"patient_service", "patient_service_sqlite"}
    /\ failing \in FailingSets
    /\ task = [t \in Tasks |-> FreeTask]
    /\ processing_tasks = [p \in Patients |-> 0]
    /\ active_sessions = [p \in Patients |-> 0]
    /\ sess = [t \in Tasks |-> NoSession]
    /\ events = [t \in Tasks |-> FALSE]
    /\ lg = [t \in Tasks |-> NoBTRADSState]
    /\ reply = NoReply
    /\ active_connections = [p \in Patients |-> "none"]
    /\ flowchart = _build_flowchart
    /\ fin = <<>>
    /\ fout = <<>>

Done(t) == task[t].pc \in {"done", "raised"}

(* ------------------------------------------------------------------ *)
(* services/websocket_manager.py.  A patient has no socket ("none"), a *)
(* socket that delivers ("open") or one whose send_json raises         *)
(* ("broken": the client has gone and the endpoint has not noticed).   *)
(* ------------------------------------------------------------------ *)
Sent(raised, connections) == [raised |-> raised, connections |-> connections]

\* a send_to_patient without the try/except: the exception of send_json
\* reaches the caller
send_to_patient_uncaught(connections, patient_id) ==
    Sent(connections[patient_id] = "broken", connections)

\* send_to_patient: a raising send is caught and the socket is removed
\* ("dropped": no socket any more, after a failed send)
send_to_patient(connections, patient_id) ==
    IF connections[patient_id] = "broken"
    THEN Sent(FALSE, [connections EXCEPT ![patient_id] = "dropped"])
    ELSE Sent(FALSE, connections)

\* send_to_patient (websocket_manager.py) as _notify_status awaits it
_notify_status(connections, patient_id) == send_to_patient(connections, patient_id)

\* a step that sends status notifications of a patient
Notify(patient_id) ==
    active_connections' = _notify_status(active_connections, patient_id).connections


Running(t) == task[t].pc \in {"created", "node", "extract", "wait", "lg"}

\* dict assignment d[k] = v on a dict kept as a sequence of <<key, value>>
\* pairs in insertion order
HasKey(d, k) == \E i \in 1..Len(d) : d[i][1] = k
Put(d, k, v) ==
    IF HasKey(d, k)
    THEN [i \in 1..Len(d) |-> IF d[i][1] = k THEN <<k, v>> ELSE d[i]]
    ELSE Append(d, <<k, v>>)

\* the slot a new request uses: the lowest free one
NextFree(t) == task[t].pc = "free" /\ \A u \in Tasks : u < t => task[u].pc # "free"

\* PatientService.start_processing: "if patient_id in self.processing_tasks
\* and not task.done()"
AlreadyProcessing(p) == processing_tasks[p] # 0 /\ ~Done(processing_tasks[p])

\* what the service passes as the second argument of process_patient
PyBool(b) == IF b THEN "True" ELSE "False"

(* services/patient_service.py: start_processing up to the await of     *)
(* _update_status                                                       *)
start_processing_check(t, p, auto_validate) ==
    /\ service = "patient_service"
    /\ NextFree(t)
    /\ task' = [task EXCEPT ![t] =
           [FreeTask EXCEPT !.pc = IF AlreadyProcessing(p) THEN "rejected" ELSE "starting",
                            !.patient = p, !.requested = auto_validate,
                            !.arg = PyBool(auto_validate)]]
    /\ UNCHANGED <<cfgvars, flowchart, processing_tasks, active_sessions, sess, events, lg, reply,
                   fnvars, active_connections>>

(* services/patient_service.py: start_processing after _update_status:  *)
(* create_task, register it, add the done callback                      *)
start_processing_create(t) ==
    /\ task[t].pc = "starting"
    /\ task' = [task EXCEPT ![t].pc = "created"]
    /\ processing_tasks' = [processing_tasks EXCEPT ![task[t].patient] = t]
    /\ UNCHANGED <<cfgvars, flowchart, active_sessions, sess, events, lg, reply, fnvars, active_connections>>

(* services/patient_service.py: _handle_completion of a finished task   *)
_handle_completion(t) ==
    /\ task[t].hc = "pending"
    /\ task' = [task EXCEPT ![t].hc = "finished"]
    /\ processing_tasks' = [processing_tasks EXCEPT ![task[t].patient] = 0]
    /\ UNCHANGED <<cfgvars, flowchart, active_sessions, sess, events, lg, reply, fnvars, active_connections>>

(* services/patient_service_sqlite.py: start_processing; the task runs  *)
(* process_patient(patient.data) with the orchestrator's default second *)
(* argument                                                             *)
sqlite_start_processing(t, p, auto_validate) ==
    /\ service = "patient_service_sqlite"
    /\ NextFree(t)
    /\ task' = [task EXCEPT ![t] =
           [FreeTask EXCEPT !.pc = IF AlreadyProcessing(p) THEN "rejected" ELSE "created",
                            !.patient = p, !.requested = auto_validate,
                            !.arg = IF orch = "simple" THEN "False" ELSE "auto"]]
    /\ processing_tasks' = IF AlreadyProcessing(p) THEN processing_tasks
                           ELSE [processing_tasks EXCEPT ![p] = t]
    /\ UNCHANGED <<cfgvars, flowchart, active_sessions, sess, events, lg, reply, fnvars, active_connections>>

\* a task ends: asyncio runs the done callback, which schedules
\* _handle_completion (patient_service.py only)
HcAtEnd == IF service = "patient_service" THEN "pending" ELSE "none"


(* ------------------------------------------------------------------ *)
(* What the language model answers: for a failing agent every call     *)
(* raises, otherwise the answer is what the note says, in the          *)
(* vocabulary the agent class asks for.                                *)
(* ------------------------------------------------------------------ *)
Ok(a, b, conf) == Response("json", a, b, "", FALSE, conf)

LLMAnswer(agent, mode, note) ==
    IF agent \in failing THEN Raise
    ELSE CASE agent = "prior_assessment" ->
                IF mode = "vllm" THEN Ok(note.prior, "", 90)
                ELSE Ok(IF note.prior = "yes" THEN "true" ELSE "false", "", 90)
           [] agent = "imaging_comparison" -> Ok(note.imaging, note.imaging, 90)
           [] agent = "medication_status" -> Ok(note.steroid, note.avastin, 90)
           [] agent = "radiation_timeline" -> Ok(note.radiation, "", 90)
           [] agent = "component_analysis" -> Ok(note.component, "", 90)
           [] agent = "extent_analysis" -> Ok(note.extent, "", 90)
           [] agent = "progression_pattern" -> Ok(note.progression, "", 90)

\* agent.extract of the agent class AGENT_MODE selects; the vLLM attempts
\* of one extraction all get the answer r
extract(agent, mode, r, ctx) ==
    IF mode = "vllm" THEN VLLM_extract(agent, <<r, r, r>>, ctx)
    ELSE Simple_extract(agent, r, ctx)

(* ------------------------------------------------------------------ *)
(* agents/orchestration/agent_orchestrator.py                          *)
(* A step runs from one suspension point to the next.  The suspension  *)
(* points are the notification of "node_activated", agent.extract and  *)
(* event.wait; the other notifications return without suspending.      *)
(* ------------------------------------------------------------------ *)

\* an exception leaves process_patient: "except: ... raise" and
\* "finally: self.active_sessions.pop(patient_id, None)"
Raised(tsk, t, what) ==
    [tsk EXCEPT ![t].pc = "raised", ![t].outcome = Exception(what), ![t].hc = HcAtEnd]

\* _process_node lines 107-114: look the session up, add the node to its
\* path, suspend in the notification.  tsk, ses, act: the tasks, sessions
\* and active_sessions as the step has left them so far
EnterNode(t, node_id, tsk, ses, act) ==
    LET p == tsk[t].patient
        s == act[p]
    IN  IF s = 0
        THEN /\ task' = Raised(tsk, t, "KeyError")
             /\ sess' = ses
             /\ active_sessions' = act
        ELSE IF _notify_status(active_connections, p).raised
        THEN /\ task' = Raised(tsk, t, "send_json")
             /\ sess' = [ses EXCEPT ![s].path = Append(@, node_id)]
             /\ active_sessions' = [act EXCEPT ![p] = 0]
        ELSE /\ task' = [tsk EXCEPT ![t].pc = "node", ![t].node = node_id, ![t].sref = s]
             /\ sess' = [ses EXCEPT ![s].path = Append(@, node_id)]
             /\ active_sessions' = act

\* process_patient lines 50-70
process_patient(t) ==
    /\ orch = "simple"
    /\ task[t].pc = "created"
    /\ EnterNode(t, "node_1_suitable_prior", task,
                 [sess EXCEPT ![t] = NewSession(task[t].arg = "True")],
                 [active_sessions EXCEPT ![task[t].patient] = t])
    /\ UNCHANGED <<cfgvars, flowchart, processing_tasks, events, lg, reply, fnvars>>
    /\ Notify(task[t].patient)

\* _calculate_confidence: the confidences it averages
_calculate_confidence(session) ==
    [i \in 1..Len(session.results) |-> session.results[i][2].result.confidence]
\* _generate_reasoning: whether each part reports a failed extraction
_generate_reasoning(session) ==
    [i \in 1..Len(session.results) |->
        session.results[i][2].result.errnote \/ session.results[i][2].result.missing]

\* _process_node lines 119-129 and _run_agent up to agent.extract; for an
\* outcome node process_patient lines 73-99
_process_node(t) ==
    LET p == task[t].patient
        node == flowchart_get_node(flowchart, task[t].node).node
        s == active_sessions[p]
    IN  /\ orch = "simple"
        /\ task[t].pc = "node"
        /\ flowchart' = flowchart_get_node(flowchart, task[t].node).nodes
        /\ IF s = 0
           THEN task' = Raised(task, t, "KeyError") /\ UNCHANGED active_sessions
           ELSE IF node.type = "outcome"
           THEN /\ task' = [task EXCEPT ![t].pc = "done", ![t].hc = HcAtEnd,
                      ![t].outcome = BTRADSResult(node.btrads_score,
                                         _calculate_confidence(sess[s]),
                                         _generate_reasoning(sess[s]),
                                         sess[s].path, sess[s].decisions)]
                /\ active_sessions' = [active_sessions EXCEPT ![p] = 0]
           ELSE IF node.agent \notin agents
           THEN /\ task' = Raised(task, t, "ValueError: Unknown agent")
                /\ active_sessions' = [active_sessions EXCEPT ![p] = 0]
           ELSE /\ task' = [task EXCEPT ![t].pc = "extract"]
                /\ UNCHANGED active_sessions
        /\ UNCHANGED <<cfgvars, processing_tasks, sess, events, lg, reply, fnvars>>
        /\ Notify(task[t].patient)


\* _process_node lines 141-160: store the result, choose the next node,
\* record the decision on the path, enter the next node
StoreResult(t, agent_result, validated_value) ==
    LET s == task[t].sref
        node_id == task[t].node
        node == get_node(node_id)
        entry == [result |-> agent_result,
                  validated |-> ~sess[s].auto_validate,
                  validated_value |-> validated_value,
                  modified |-> validated_value # agent_result.value]
        next_node == _determine_next_node(node, validated_value)
    IN  EnterNode(t, next_node,
                  [task EXCEPT ![t].held = <<>>],
                  [sess EXCEPT ![s].results = Put(@, node.agent, entry),
                               ![s].decisions = Put(@, node_id, validated_value),
                               ![s].path = Append(@, node_id)],
                  active_sessions)

PendingValidation(validation_id, node_id, agent_result, event) ==
    [id |-> validation_id, node_id |-> node_id, result |-> agent_result,
     event |-> event, validated_value |-> None]

\* agent.extract returns (_run_agent lines 183-197), then _process_node
\* lines 132-139: in auto mode the value is accepted, otherwise
\* _wait_for_validation lines 207-226 opens the pending validation
_run_agent(t) ==
    LET p == task[t].patient
        node_id == task[t].node
        agent == get_node(node_id).agent
        agent_result == Simple_extract(agent, LLMAnswer(agent, "mock", PatientData[p].note),
                                       _prepare_context(PatientData[p]))
        w == active_sessions[p]
    IN  /\ orch = "simple"
        /\ task[t].pc = "extract"
        /\ IF sess[task[t].sref].auto_validate
           THEN /\ StoreResult(t, agent_result, agent_result.value)
                /\ UNCHANGED events
           ELSE IF w = 0
           THEN /\ task' = Raised(task, t, "KeyError")
                /\ UNCHANGED <<sess, active_sessions, events>>
           ELSE /\ task' = [task EXCEPT ![t].pc = "wait", ![t].wref = w,
                                        ![t].held = <<agent_result>>]
                /\ sess' = [sess EXCEPT ![w].pending =
                               Some(PendingValidation(<<p, node_id, t>>, node_id,
                                                      agent_result, t))]
                /\ events' = [events EXCEPT ![t] = FALSE]
                /\ UNCHANGED active_sessions
        /\ UNCHANGED <<cfgvars, flowchart, processing_tasks, lg, reply, fnvars>>
        /\ Notify(task[t].patient)


\* the value a clinician submits for a node of a patient: what the note
\* says, as the transition key of the node
ClinicianValue(note, node_id) ==
    Str(CASE node_id = "node_1_suitable_prior" -> note.prior
          [] node_id = "node_2_imaging_assessment" -> note.imaging
          [] node_id = "node_4_time_since_xrt" -> note.radiation
          [] node_id = "node_5_what_is_worse" -> note.component
          [] node_id = "node_6_how_much_worse" -> note.extent
          [] node_id = "node_7_progressive" -> note.progression
          [] OTHER -> "unknown")
ValidatedValues(patient_id, node_id) ==
    {ClinicianValue(PatientData[patient_id].note, node_id)}

\* the validation ids a caller may hold: those the orchestrator has issued
\* and one it has not
StaleId == <<"PT1", "node_1_suitable_prior", 0>>
IssuedIds == {sess[s].pending[1].id : s \in {u \in Tasks : sess[u].pending # None}}

\* validate_result without the comparison of lines 244-245
validate_result_unchecked(patient_id, validation_id, validated_value) ==
    LET s == active_sessions[patient_id]
        pending == sess[s].pending[1]
    IN  /\ orch = "simple"
        /\ IF s = 0 \/ sess[s].pending = None
           THEN /\ reply' = Reply("No pending validation found")
                /\ UNCHANGED <<sess, events>>
           ELSE /\ sess' = [sess EXCEPT ![s].pending[1].validated_value =
                                            Some(validated_value)]
                /\ events' = [events EXCEPT ![pending.event] = TRUE]
                /\ reply' = Reply("ok")
        /\ UNCHANGED <<cfgvars, flowchart, task, processing_tasks, active_sessions, lg, fnvars>>
        /\ IF reply'.outcome = "ok" THEN Notify(patient_id)
           ELSE UNCHANGED active_connections

\* validate_result looking the pending validation up by its id in every
\* session, whatever the patient_id of the call
validate_result_by_id(patient_id, validation_id, validated_value) ==
    LET owners == {u \in Tasks : /\ sess[u].pending # None
                                 /\ sess[u].pending[1].id = validation_id}
        s == CHOOSE u \in owners : TRUE
    IN  /\ orch = "simple"
        /\ IF owners = {}
           THEN /\ reply' = Reply("No pending validation found")
                /\ UNCHANGED <<sess, events>>
           ELSE /\ sess' = [sess EXCEPT ![s].pending[1].validated_value =
                                            Some(validated_value)]
                /\ events' = [events EXCEPT ![sess[s].pending[1].event] = TRUE]
                /\ reply' = Reply("ok")
        /\ UNCHANGED <<cfgvars, flowchart, task, processing_tasks, active_sessions, lg, fnvars>>
        /\ IF reply'.outcome = "ok" THEN Notify(patient_id)
           ELSE UNCHANGED active_connections

\* validate_result lines 239-258: what the call does to the orchestrator
AgentOrchestrator_validate_result(patient_id, validation_id, validated_value) ==
    LET s == active_sessions[patient_id]
        pending == sess[s].pending[1]
    IN  /\ orch = "simple"
        /\ IF s = 0 \/ sess[s].pending = None
           THEN /\ reply' = Reply("No pending validation found")
                /\ UNCHANGED <<sess, events>>
           ELSE IF pending.id # validation_id
           THEN /\ reply' = Reply("Validation ID mismatch")
                /\ UNCHANGED <<sess, events>>
           ELSE /\ sess' = [sess EXCEPT ![s].pending[1].validated_value =
                                            Some(validated_value)]
                /\ events' = [events EXCEPT ![pending.event] = TRUE]
                /\ reply' = Reply("ok")
        /\ UNCHANGED <<cfgvars, flowchart, task, processing_tasks, active_sessions, lg>>
        /\ IF reply'.outcome = "ok" THEN Notify(patient_id)
           ELSE UNCHANGED active_connections

\* validate_result called on the orchestrator itself
validate_result(patient_id, validation_id, validated_value) ==
    /\ AgentOrchestrator_validate_result(patient_id, validation_id, validated_value)
    /\ UNCHANGED fnvars

\* _wait_for_validation lines 226-229 once the event is set, then
\* _process_node lines 141-160
_wait_for_validation(t) ==
    LET pending == sess[task[t].wref].pending[1]
    IN  /\ orch = "simple"
        /\ task[t].pc = "wait"
        /\ events[t]
        /\ IF pending.validated_value = None
           THEN /\ task' = Raised(task, t, "KeyError")
                /\ active_sessions' = [active_sessions EXCEPT ![task[t].patient] = 0]
                /\ UNCHANGED sess
           ELSE StoreResult(t, task[t].held[1], pending.validated_value[1])
        /\ UNCHANGED <<cfgvars, flowchart, processing_tasks, events, lg, reply, fnvars>>
        /\ Notify(task[t].patient)


(* ------------------------------------------------------------------ *)
(* agents/orchestration/langgraph_orchestrator.py                      *)
(* ------------------------------------------------------------------ *)
Bool(b) == [k |-> "bool", v |-> PyBool(b), w |-> ""]
\* Python truthiness of a decision value
Truthy(val) ==
    IF val.k = "bool" THEN val.v = "True"
    ELSE IF val.k = "str" THEN val.v # ""
    ELSE TRUE
DictGet(d, key, default) ==
    IF HasKey(d, key) THEN d[CHOOSE i \in 1..Len(d) : d[i][1] = key][2] ELSE default

\* the agent each graph node runs
LGAgent ==
    [prior_assessment |-> "prior_assessment", imaging_comparison |-> "imaging_comparison",
     medication_check |-> "medication_status", radiation_check |-> "radiation_timeline",
     component_analysis |-> "component_analysis", extent_analysis |-> "extent_analysis",
     progression_pattern |-> "progression_pattern"]
LGTerminal ==
    [bt_0 |-> "0", bt_1a |-> "BT-1a", bt_1b |-> "BT-1b", bt_2 |-> "BT-2",
     bt_3a |-> "BT-3a", bt_3b |-> "BT-3b", bt_3c |-> "BT-3c", bt_4 |-> "BT-4"]
LGNodes == DOMAIN LGAgent \cup DOMAIN LGTerminal

\* "if isinstance(result.extracted_value, dict): ....get(key, "unknown")":
\* no agent's dict carries the key the node asks for
StrOrUnknown(value) == IF value.k = "str" THEN value ELSE Str("unknown")

\* the decision a node stores: <<key, value>>
LGDecision(node, value, ctx) ==
    CASE node = "prior_assessment" ->
           <<"has_prior", IF value.k = "str" THEN value
                          ELSE IF value.k = "prior" THEN Bool(value.v = "True")
                          ELSE Bool(FALSE)>>
      [] node = "imaging_comparison" -> <<"imaging_change", StrOrUnknown(value)>>
      [] node = "medication_check" -> <<"medication_status", value>>
      [] node = "radiation_check" ->
           <<"radiation_recent",
             Bool((IF IsNone(ctx.days_since_radiation) THEN DAYS_DEFAULT
                   ELSE Get(ctx.days_since_radiation)) < DAYS_WINDOW)>>
      [] node = "component_analysis" -> <<"component_pattern", StrOrUnknown(value)>>
      [] node = "extent_analysis" -> <<"extent", StrOrUnknown(value)>>
      [] node = "progression_pattern" -> <<"progression_pattern", StrOrUnknown(value)>>

_route_from_prior(decisions) ==
    IF Truthy(DictGet(decisions, "has_prior", Bool(FALSE))) THEN "imaging_comparison"
    ELSE "bt_0"
_route_from_imaging(decisions) ==
    LET assessment == DictGet(decisions, "imaging_change", Str("unknown"))
    IN  IF assessment = Str("improved") THEN "medication_check"
        ELSE IF assessment = Str("stable") THEN "bt_2"
        ELSE "radiation_check"
_route_from_medication(decisions) ==
    LET med_status == DictGet(decisions, "medication_status", OtherDict)
        avastin == IF med_status.k = "med" THEN med_status.w ELSE "None"
        steroid == IF med_status.k = "med" THEN med_status.v ELSE "None"
    IN  IF avastin \in {"ongoing", "first_treatment", "started"} THEN "bt_1b"
        ELSE IF steroid \in {"increasing", "started"} THEN "bt_1b"
        ELSE IF avastin = "none" /\ steroid \in {"none", "stable", "decreasing"}
        THEN "bt_1a"
        ELSE "bt_1a"
_route_from_radiation(decisions) ==
    IF Truthy(DictGet(decisions, "radiation_recent", Bool(FALSE))) THEN "bt_3a"
    ELSE "component_analysis"
_route_from_component(decisions) ==
    IF DictGet(decisions, "component_pattern", Str("unknown")) = Str("flair_only")
    THEN "bt_3b" ELSE "extent_analysis"
_route_from_extent(decisions) ==
    IF DictGet(decisions, "extent", Str("unknown")) = Str("limited")
    THEN "bt_3b" ELSE "progression_pattern"
_route_from_progression(decisions) ==
    IF DictGet(decisions, "progression_pattern", Str("unknown")) = Str("progressive")
    THEN "bt_4" ELSE "bt_3c"

\* the conditional edges of _build_graph
LGRoute(node, decisions) ==
    CASE node = "prior_assessment" -> _route_from_prior(decisions)
      [] node = "imaging_comparison" -> _route_from_imaging(decisions)
      [] node = "medication_check" -> _route_from_medication(decisions)
      [] node = "radiation_check" -> _route_from_radiation(decisions)
      [] node = "component_analysis" -> _route_from_component(decisions)
      [] node = "extent_analysis" -> _route_from_extent(decisions)
      [] node = "progression_pattern" -> _route_from_progression(decisions)


\* process_patient lines 517-555 up to the first agent call: the initial
\* state, _start_node and the edge to prior_assessment
lg_process_patient(t) ==
    /\ orch = "langgraph"
    /\ task[t].pc = "created"
    /\ task' = [task EXCEPT ![t].pc = "lg", ![t].node = "prior_assessment"]
    /\ lg' = [lg EXCEPT ![t] = [NewBTRADSState(task[t].arg) EXCEPT !.path = <<"start">>]]
    /\ UNCHANGED <<cfgvars, flowchart, processing_tasks, active_sessions, sess, events, reply, fnvars>>
    /\ Notify(task[t].patient)

\* one extraction node (_prior_assessment_node ... _progression_pattern_node)
\* and the conditional edge that follows it
lg_node(t) ==
    LET node == task[t].node
        agent == LGAgent[node]
        ctx == _prepare_context(PatientData[task[t].patient])
        r == LLMAnswer(agent, agent_mode, PatientData[task[t].patient].note)
        result == extract(agent, agent_mode, r, ctx)
        decisions == Put(lg[t].decisions, LGDecision(node, result.value, ctx)[1],
                         LGDecision(node, result.value, ctx)[2])
    IN  /\ orch = "langgraph"
        /\ task[t].pc = "lg"
        /\ node \in DOMAIN LGAgent
        /\ lg' = [lg EXCEPT ![t].path = Append(@, node),
                            ![t].results = Put(@, agent, result),
                            ![t].decisions = decisions,
                            ![t].confidence_scores = Append(@, result.confidence),
                            ![t].pending_validations =
                                IF node = "prior_assessment"
                                   /\ lg[t].validation_mode = "manual"
                                   /\ result.confidence < LG_VALIDATE_BELOW
                                THEN Append(@, node) ELSE @]
        /\ task' = [task EXCEPT ![t].node = LGRoute(node, decisions)]
        /\ UNCHANGED <<cfgvars, flowchart, processing_tasks, active_sessions, sess, events, reply, fnvars,
                       active_connections>>

\* "if score_value.startswith("BT-"): score_value = score_value[3:]"
StripBT(score_value) ==
    IF Len(score_value) > 3 /\ SubSeq(score_value, 1, 3) = "BT-"
    THEN SubSeq(score_value, 4, Len(score_value)) ELSE score_value

\* _create_result: the path object, which records decisions.get(node)
LGPathDecisions(state) ==
    SelectSeq([i \in 1..Len(state.path) |->
                  <<state.path[i], DictGet(state.decisions, state.path[i], OtherDict)>>],
              LAMBDA e : HasKey(state.decisions, e[1]))

\* a terminal node (_terminal_node_bt0 ... _terminal_node_bt4), END and
\* _create_result
lg_terminal(t) ==
    LET node == task[t].node
        state == [lg[t] EXCEPT !.btrads_score = LGTerminal[node]]
    IN  /\ orch = "langgraph"
        /\ task[t].pc = "lg"
        /\ node \in DOMAIN LGTerminal
        /\ lg' = [lg EXCEPT ![t] = state]
        /\ task' = [task EXCEPT ![t].pc = "done", ![t].hc = HcAtEnd,
               ![t].outcome = BTRADSResult(StripBT(state.btrads_score),
                                  state.confidence_scores,
                                  [i \in 1..Len(state.results) |->
                                      state.results[i][2].errnote
                                      \/ state.results[i][2].missing],
                                  state.path, LGPathDecisions(state))]
        /\ UNCHANGED <<cfgvars, flowchart, processing_tasks, active_sessions, sess, events, reply, fnvars,
                       active_connections>>

(* ------------------------------------------------------------------ *)
(* The system                                                          *)
(* ------------------------------------------------------------------ *)
Next ==
    \/ \E t \in Tasks, p \in Patients, auto_validate \in BOOLEAN :
          start_processing_check(t, p, auto_validate)
    \/ \E t \in Tasks : start_processing_create(t)
    \/ \E t \in Tasks : _handle_completion(t)
    \/ \E t \in Tasks, p \in Patients, auto_validate \in BOOLEAN :
          sqlite_start_processing(t, p, auto_validate)
    \/ \E t \in Tasks : process_patient(t)
    \/ \E t \in Tasks : _process_node(t)
    \/ \E t \in Tasks : _run_agent(t)
    \/ \E patient_id \in Patients, validation_id \in IssuedIds \cup {StaleId} :
          \E validated_value \in ValidatedValues(validation_id[1], validation_id[2]) :
             validate_result(patient_id, validation_id, validated_value)
    \/ \E t \in Tasks : _wait_for_validation(t)
    \/ \E t \in Tasks : lg_process_patient(t)
    \/ \E t \in Tasks : lg_node(t)
    \/ \E t \in Tasks : lg_terminal(t)

Spec == Init /\ [][Next]_vars


(* ------------------------------------------------------------------ *)
(* Properties                                                          *)
(* ------------------------------------------------------------------ *)
Started(t) == task[t].pc \notin {"free", "rejected", "starting"}
\* no other request concerns the patient of t
Alone(t) == \A u \in Tasks \ {t} : task[u].pc = "free" \/ task[u].patient # task[t].patient
\* the results a traversal has stored, as <<agent, AgentResult>> pairs
StoredResults(t) ==
    IF orch = "simple"
    THEN [i \in 1..Len(sess[t].results) |->
             <<sess[t].results[i][1], sess[t].results[i][2].result>>]
    ELSE lg[t].results

\* C1: every call of process_patient ends by returning a result whose
\* score is one of the eight BT-RADS scores; it never raises.  (Stated for
\* a traversal that is the only one of its patient.)
C1_ReturnsScore ==
    \A t \in Tasks :
        Alone(t) =>
            /\ task[t].pc # "raised"
            /\ task[t].pc = "done" =>
                  task[t].outcome.kind = "result" /\ task[t].outcome.score \in BTRADSScore

\* C2: when every extractor call fails, the traversal still returns a
\* result, whose confidence_score is 0 (every averaged confidence is 0)
\* and which carries an error annotation for each extraction it made.
C2_AllFailStillReturns ==
    \A t \in Tasks :
        (failing = AgentTypes /\ Alone(t)) =>
            /\ task[t].pc # "raised"
            /\ task[t].pc = "done" =>
                  /\ task[t].outcome.kind = "result"
                  /\ \A i \in 1..Len(task[t].outcome.confidences) :
                        task[t].outcome.confidences[i] = 0
                  /\ \A i \in 1..Len(task[t].outcome.notes) : task[t].outcome.notes[i]

\* C3: an extractor failure is recorded as an error-typed result with
\* confidence 0 and a MissingInfo note; the traversal is not aborted by it.
C3_FailureIsErrorResult ==
    \A t \in Tasks :
        Alone(t) =>
            \A i \in 1..Len(StoredResults(t)) :
                StoredResults(t)[i][1] \in failing =>
                    /\ StoredResults(t)[i][2].error
                    /\ StoredResults(t)[i][2].confidence = 0
                    /\ StoredResults(t)[i][2].missing


\* the decisions a traversal has recorded
Recorded(t) == IF orch = "simple" THEN sess[t].decisions ELSE lg[t].decisions
\* the traversal waits at its node and validate_result has been called
\* with the id of the node's pending validation (LangGraphOrchestrator has
\* no validate_result: its pending_validations are never resolved)
ValidationResolved(t) ==
    /\ orch = "simple"
    /\ task[t].pc = "wait" /\ events[t]
    /\ sess[t].pending # None
    /\ sess[t].pending[1].id = <<task[t].patient, task[t].node, t>>
    /\ sess[t].pending[1].validated_value # None

\* C4: a traversal started in ManualGate mode (auto_validate = False)
\* records a value, and so goes on to a successor, only in a step that
\* finds the pending validation of its node resolved by validate_result.
C4_ManualGateBlocks ==
    [][\A t \in Tasks :
          (Started(t) /\ Alone(t) /\ ~task[t].requested /\ Recorded(t)' # Recorded(t))
          => ValidationResolved(t)]_vars

\* a validate_result call whose id differs from the id of the pending
\* validation of the patient's session
IsMismatch(patient_id, validation_id) ==
    /\ active_sessions[patient_id] # 0
    /\ sess[active_sessions[patient_id]].pending # None
    /\ sess[active_sessions[patient_id]].pending[1].id # validation_id

\* C5: validate_result with an id that is not the pending validation's id
\* raises "Validation ID mismatch" and changes nothing else: the waiter is
\* not woken, the pending validation stays open and unmodified.
C5_MismatchChangesNothing ==
    [][\A validation_id \in IssuedIds \cup {StaleId} :
          \A validated_value \in ValidatedValues(validation_id[1], validation_id[2]) :
             (/\ IsMismatch(validation_id[1], validation_id)
              /\ validate_result(validation_id[1], validation_id, validated_value))
             => /\ reply'.outcome = "Validation ID mismatch"
                /\ UNCHANGED <<sess, events, task, active_sessions>>]_vars

\* a call with a wrong id was rejected, the next call resolved the pending
\* validation, and the waiting traversal has gone on with the validated value
C5_Witness ==
    /\ reply.outcome = "ok" /\ reply.after_mismatch
    /\ \E t \in Tasks :
          /\ Alone(t) /\ task[t].pc = "node"
          /\ sess[t].pending # None
          /\ sess[t].pending[1].validated_value # None
          /\ HasKey(sess[t].decisions, sess[t].pending[1].node_id)

\* C6: a patient has at most one open pending validation: at most one
\* traversal of the patient waits for a validation that is not resolved.
C6_OnePendingPerCase ==
    \A p \in Patients :
        Cardinality({t \in Tasks : task[t].patient = p /\ task[t].pc = "wait"
                                   /\ ~events[t]}) <= 1

\* C7: at most one traversal of a patient is in progress.
C7_OneTraversalPerPatient ==
    \A p \in Patients :
        Cardinality({t \in Tasks : task[t].patient = p /\ Running(t)}) <= 1

\* C8: the patient with FLAIR -48%, enhancement -25%, a suitable prior, no
\* radiation date and no medication ends with score 1a, whenever the
\* extractors work.
C8_ImprovedNoMedsIs1a ==
    \A t \in Tasks :
        (failing = {} /\ Alone(t) /\ task[t].patient = "PT1" /\ Done(t)) =>
            task[t].outcome.kind = "result" /\ task[t].outcome.score = "1a"


(* ------------------------------------------------------------------ *)
(* The parsers and the routing functions on their own: fin is the call *)
(* (which function, and its arguments), fout its return value.         *)
(* ------------------------------------------------------------------ *)
\* _build_graph: the edges of the compiled graph.  A conditional edge maps
\* the label its routing function returns to the target node; the terminal
\* nodes lead to END, which is not a node.
_build_graph ==
    [start |-> [edge |-> "prior_assessment"],
     prior_assessment |-> [no_prior |-> "bt_0", has_prior |-> "imaging_comparison"],
     imaging_comparison |-> [stable |-> "bt_2", improved |-> "medication_check",
                             worse |-> "radiation_check"],
     medication_check |-> [no_meds |-> "bt_1a", on_avastin |-> "bt_1b",
                           on_steroids |-> "bt_1b", unknown |-> "bt_1a"],
     radiation_check |-> [recent |-> "bt_3a", remote |-> "component_analysis"],
     component_analysis |-> [flair_only |-> "bt_3b", enhancement |-> "extent_analysis",
                             mixed |-> "extent_analysis"],
     extent_analysis |-> [limited |-> "bt_3b", extensive |-> "progression_pattern"],
     progression_pattern |-> [stable_pattern |-> "bt_3c", progressive |-> "bt_4"]]

\* a retrying flowchart: a non-terminal node may also be entered again
flowchart_edges_with_retry(node_id) ==
    IF is_terminal(node_id) THEN {}
    ELSE {get_node(node_id).next_nodes[k] : k \in DOMAIN get_node(node_id).next_nodes}
         \cup {get_node(node_id).default_next, node_id}

\* the nodes a flowchart node can lead to: the values of its next_nodes
\* and its default_next
flowchart_edges(node_id) ==
    IF is_terminal(node_id) THEN {}
    ELSE {get_node(node_id).next_nodes[k] : k \in DOMAIN get_node(node_id).next_nodes}
         \cup {get_node(node_id).default_next}

\* the nodes a node of the compiled graph can lead to
graph_edges(node) ==
    IF node \in DOMAIN _build_graph
    THEN {_build_graph[node][label] : label \in DOMAIN _build_graph[node]}
    ELSE {}

\* the two decision graphs, named by their entry nodes
EntryNodes == {"node_1_suitable_prior", "start"}
GraphNodes(entry) ==
    IF entry = "start" THEN LGNodes \cup {"start"} ELSE NodeIds
Terminal(entry, node) ==
    IF entry = "start" THEN node \in DOMAIN LGTerminal ELSE is_terminal(node)
Edges(entry, node) ==
    IF entry = "start" THEN graph_edges(node) ELSE flowchart_edges(node)

FnInput(op, agent, r, ctx, node, value, decisions) ==
    [op |-> op, agent |-> agent, r |-> r, ctx |-> ctx, node |-> node,
     value |-> value, decisions |-> decisions]

\* the agents whose parse_response consults a volume rule first
RuleAgents == {"imaging_comparison", "component_analysis", "extent_analysis"}

\* volume changes in tenths of a percent, on both sides of the 10% and
\* 40% thresholds
PctValues == {-250, 50, 101, 400}
Contexts ==
    {Context(flair, enh, None, abs, abs) :
        flair \in {None} \cup {Some(x) : x \in PctValues},
        enh \in {None} \cup {Some(x) : x \in PctValues},
        abs \in {None, Some(5)}}

\* what the language model can answer an agent: a JSON object or free
\* text, with the fields in the agent's vocabulary or outside it
Responses(agent) ==
    CASE agent = "imaging_comparison" ->
           {Response(fmt, a, b, c, flag, conf) :
               fmt \in {"json", "text"},
               a \in {"improved", "unchanged", "worse", "unknown", "stable"},
               b \in {"unknown", "worse"}, c \in {"unknown", "improved"},
               flag \in BOOLEAN, conf \in {60, 90}}
      [] agent = "component_analysis" ->
           {Response(fmt, a, b, c, flag, conf) :
               fmt \in {"json", "text"},
               a \in {"flair_or_enh", "flair_and_enh", "unknown", "mixed"},
               b \in {"true", "false"}, c \in {"true", "false"},
               flag \in BOOLEAN, conf \in {60, 90}}
      [] agent = "extent_analysis" ->
           {Response(fmt, a, b, "", flag, conf) :
               fmt \in {"json", "text"},
               a \in {"major", "minor", "unknown", "extensive"},
               b \in {"", "ge40", "lt40"},
               flag \in BOOLEAN, conf \in {60, 90}}

NoContext == Context(None, None, None, None, None)

\* the keys looked up in a transition map: every key of every map,
\* "unknown", a key no map has, and the repr of a dict
Keys ==
    UNION {DOMAIN get_node(n).next_nodes : n \in {m \in NodeIds : ~is_terminal(m)}}
    \cup {"unknown", "stable", PyStr(OtherDict)}

\* the values an agent result can carry
Values ==
    {Str(key) : key \in Keys}
    \cup {PriorDict("True"), PriorDict("False"), ErrDict, OtherDict}
    \cup {MedDict(s, a) : s \in {"none", "increasing", "unknown"},
                          a \in {"none", "ongoing", "unknown"}}

\* the key under which a LangGraph node stores its decision
LGDecisionKey(node) == LGDecision(node, Str("unknown"), NoContext)[1]

\* state["decisions"] as a routing function finds it: empty, or holding
\* the node's own decision
Decisions(node) ==
    {<<>>} \cup {<< <<LGDecisionKey(node), v>> >> :
                    v \in IF node = "medication_check"
                          THEN {x \in Values : x.k \in {"med", "err", "dict"}}
                          ELSE {x \in Values : x.k = "str"}
                               \cup {Bool(TRUE), Bool(FALSE)}}

\* fin is one of the inputs the pure functions are evaluated on
FnInputs ==
    \/ \E op \in {"parse_response", "extract"}, agent \in RuleAgents :
          \E r \in Responses(agent), ctx \in Contexts :
             fin = FnInput(op, agent, r, ctx, "", Str(""), <<>>)
    \/ \E node \in NodeIds, key \in Keys :
          fin = FnInput("get_next_node", "", Raise, NoContext, node, Str(key), <<>>)
    \/ \E node \in {m \in NodeIds : ~is_terminal(m)}, value \in Values :
          fin = FnInput("_determine_next_node", "", Raise, NoContext, node, value, <<>>)
    \/ \E node \in DOMAIN LGAgent : \E decisions \in Decisions(node) :
          fin = FnInput("LGRoute", "", Raise, NoContext, node, Str(""), decisions)
    \/ \E entry \in EntryNodes :
          fin = FnInput("walk", "", Raise, NoContext, entry, Str(""), <<>>)

InitFn ==
    /\ orch = "langgraph"
    /\ agent_mode = "vllm"
    /\ service = "patient_service_sqlite"
    /\ failing = {}
    /\ task = [t \in Tasks |-> FreeTask]
    /\ processing_tasks = [p \in Patients |-> 0]
    /\ active_sessions = [p \in Patients |-> 0]
    /\ sess = [t \in Tasks |-> NoSession]
    /\ events = [t \in Tasks |-> FALSE]
    /\ lg = [t \in Tasks |-> NoBTRADSState]
    /\ reply = NoReply
    /\ active_connections = [p \in Patients |-> "none"]
    /\ flowchart = _build_flowchart
    /\ FnInputs
    /\ fout = <<>>

sysvars == <<orch, agent_mode, service, failing, task, processing_tasks,
             active_sessions, sess, events, lg, reply, active_connections>>

Returns(op, result) ==
    /\ fin.op = op
    /\ fout = <<>>
    /\ fout' = Some(result)
    /\ UNCHANGED <<fin, sysvars, flowchart>>

call_parse_response ==
    Returns("parse_response", parse_response(fin.agent, fin.r, fin.ctx))
call_extract ==
    Returns("extract", extract(fin.agent, agent_mode, fin.r, fin.ctx))
call_get_next_node ==
    Returns("get_next_node", get_next_node(fin.node, PyStr(fin.value)))
call_determine_next_node ==
    Returns("_determine_next_node", _determine_next_node(get_node(fin.node), fin.value))
call_route ==
    Returns("LGRoute", LGRoute(fin.node, fin.decisions))

\* a traversal of a decision graph from its entry node fin.node: fout is
\* the sequence of the nodes entered so far
Current == IF fout = <<>> THEN fin.node ELSE fout[Len(fout)]
walk ==
    /\ fin.op = "walk"
    /\ \E node \in Edges(fin.node, Current) : fout' = Append(fout, node)
    /\ UNCHANGED <<fin, sysvars, flowchart>>

NextFn ==
    \/ call_parse_response
    \/ call_extract
    \/ call_get_next_node
    \/ call_determine_next_node
    \/ call_route
    \/ walk

SpecFn == InitFn /\ [][NextFn]_vars

(* ------------------------------------------------------------------ *)
(* Properties of the parsers and the routing functions                 *)
(* ------------------------------------------------------------------ *)
\* the category the agent's rule function computes from the context
RuleResult(agent, ctx) ==
    CASE agent = "imaging_comparison" ->
           apply_enhancement_priority_rule(Get(ctx.flair_change_pct),
               Get(ctx.enhancement_change_pct), ctx.flair_abs, ctx.enh_abs)
      [] agent = "component_analysis" ->
           determine_component_worsening(Get(ctx.flair_change_pct),
                                         Get(ctx.enhancement_change_pct))
      [] agent = "extent_analysis" ->
           apply_40_percent_rule(Get(ctx.flair_change_pct),
                                 Get(ctx.enhancement_change_pct))

Decisive(rule) == rule \notin {"none", "unknown"}

\* the value the agent reads from the extractor's answer alone
ExtractorValue(agent, r) == parse_response(agent, r, NoContext).value

Parsing == fout # <<>> /\ fin.op \in {"parse_response", "extract"}

C10_NextIsAlwaysANode ==
    fout # <<>> =>
        /\ (fin.op = "get_next_node" /\ ~is_terminal(fin.node)) =>
               fout[1] # None /\ Get(fout[1]) \in NodeIds
        /\ fin.op = "_determine_next_node" => fout[1] \in NodeIds
        /\ fin.op = "LGRoute" => fout[1] \in LGNodes

\* a key the node's transition map lacks leads to the node's default
C10_Witness ==
    /\ fout # <<>>
    /\ fin.op = "_determine_next_node"
    /\ PyStr(fin.value) \notin DOMAIN get_node(fin.node).next_nodes
    /\ fout[1] = get_node(fin.node).default_next
    /\ fout[1] \in NodeIds

\* the nodes reachable from the nodes in seen
RECURSIVE ReachableFrom(_, _)
ReachableFrom(entry, seen) ==
    LET more == seen \cup UNION {Edges(entry, n) : n \in seen}
    IN  IF more = seen THEN seen ELSE ReachableFrom(entry, more)

Walking == fin.op = "walk"
Visited == <<fin.node>> \o fout

\* C11: the decision graph has no cycles (no traversal enters a node
\* twice), every node is reachable from the single entry node, and every
\* path from the entry node reaches a terminal node within at most 8 hops
\* (a traversal can stop only at a terminal node, and never after more
\* than 8 edges).
C11_GraphIsBoundedDag ==
    Walking =>
        /\ \A i, j \in 1..Len(Visited) : Visited[i] = Visited[j] => i = j
        /\ ReachableFrom(fin.node, {fin.node}) = GraphNodes(fin.node)
        /\ Current \in GraphNodes(fin.node)
        /\ (Edges(fin.node, Current) = {}) <=> Terminal(fin.node, Current)
        /\ Len(fout) <= 8

\* the longest traversal of the flowchart: six edges to a terminal node
C11_Witness ==
    /\ Walking /\ fin.node = "node_1_suitable_prior"
    /\ Len(fout) = 6 /\ Terminal(fin.node, Current)
    /\ fout[5] = "node_7_progressive"

(* ------------------------------------------------------------------ *)
(* Properties of the services and orchestrators (continued)            *)
(* ------------------------------------------------------------------ *)
\* C12: in a case started in AutoAccept mode (auto_validate = True) no
\* validation is ever pending and the traversal never waits for a
\* validation; every stored result records, as the validated value used
\* to choose the next node, exactly the value of the extractor result.
C12_AutoAcceptNeverWaits ==
    \A t \in Tasks :
        (Started(t) /\ Alone(t) /\ task[t].requested) =>
            /\ task[t].pc # "wait"
            /\ sess[t].pending = None
            /\ lg[t].pending_validations = <<>>
            /\ \A i \in 1..Len(sess[t].results) :
                  /\ ~sess[t].results[i][2].validated
                  /\ sess[t].results[i][2].validated_value
                        = sess[t].results[i][2].result.value

\* C13: a pending validation that is aborted or times out counts as a
\* failure at its node, after which the traversal resumes along the
\* node's default_next edge.  So a traversal that waits on an unresolved
\* validation never depends on validate_result alone: the step that takes
\* it out of the wait is possible without it.
C13_AbortResumes ==
    \A t \in Tasks :
        (Alone(t) /\ task[t].pc = "wait" /\ ~events[t]) =>
            ENABLED _wait_for_validation(t)

\* the run of a case on its own, node after node with nothing in between:
\* what AgentOrchestrator.process_patient returns or raises for patient p
\* from node_id on, ses being the session so far
RECURSIVE AloneSimple(_, _, _)
AloneSimple(p, ses, node_id) ==
    LET node == get_node(node_id)
        entered == [ses EXCEPT !.path = Append(@, node_id)]
        agent_result == Simple_extract(node.agent,
                            LLMAnswer(node.agent, "mock", PatientData[p].note),
                            _prepare_context(PatientData[p]))
        validated_value == IF ses.auto_validate THEN agent_result.value
                           ELSE ClinicianValue(PatientData[p].note, node_id)
        entry == [result |-> agent_result, validated |-> ~ses.auto_validate,
                  validated_value |-> validated_value,
                  modified |-> validated_value # agent_result.value]
    IN  IF node.type = "outcome"
        THEN BTRADSResult(node.btrads_score, _calculate_confidence(entered),
                          _generate_reasoning(entered), entered.path, entered.decisions)
        ELSE IF node.agent \notin agents THEN Exception("ValueError: Unknown agent")
        ELSE AloneSimple(p,
                 [entered EXCEPT !.results = Put(@, node.agent, entry),
                                 !.decisions = Put(@, node_id, validated_value),
                                 !.path = Append(@, node_id)],
                 _determine_next_node(node, validated_value))

\* the same for LangGraphOrchestrator.process_patient
RECURSIVE AloneLangGraph(_, _, _)
AloneLangGraph(p, state, node) ==
    LET agent == LGAgent[node]
        ctx == _prepare_context(PatientData[p])
        result == extract(agent, agent_mode, LLMAnswer(agent, agent_mode, PatientData[p].note),
                          ctx)
        decision == LGDecision(node, result.value, ctx)
        after == [state EXCEPT
                     !.path = Append(@, node),
                     !.results = Put(@, agent, result),
                     !.decisions = Put(@, decision[1], decision[2]),
                     !.confidence_scores = Append(@, result.confidence),
                     !.pending_validations =
                         IF node = "prior_assessment" /\ state.validation_mode = "manual"
                            /\ result.confidence < LG_VALIDATE_BELOW
                         THEN Append(@, node) ELSE @]
        final == [state EXCEPT !.btrads_score = LGTerminal[node]]
    IN  IF node \in DOMAIN LGTerminal
        THEN BTRADSResult(StripBT(final.btrads_score), final.confidence_scores,
                 [i \in 1..Len(final.results) |->
                     final.results[i][2].errnote \/ final.results[i][2].missing],
                 final.path, LGPathDecisions(final))
        ELSE AloneLangGraph(p, after, LGRoute(node, after.decisions))

RunAlone(p, arg) ==
    IF orch = "simple"
    THEN AloneSimple(p, NewSession(arg = "True"), "node_1_suitable_prior")
    ELSE AloneLangGraph(p, [NewBTRADSState(arg) EXCEPT !.path = <<"start">>],
                        "prior_assessment")

\* everything the program keeps about the case of a task
CaseState(t) ==
    <<task[t], sess[t], lg[t], events[t], active_sessions[task[t].patient],
      processing_tasks[task[t].patient]>>
\* task u takes a step of its traversal
Steps(u) ==
    \/ start_processing_create(u) \/ _handle_completion(u)
    \/ process_patient(u) \/ _process_node(u) \/ _run_agent(u)
    \/ _wait_for_validation(u)
    \/ lg_process_patient(u) \/ lg_node(u) \/ lg_terminal(u)
OtherCases(p) == {t \in Tasks : task[t].patient \notin {"", p}}

\* C14: cases of different patients that run concurrently do not affect
\* one another: a step of one case, and a validate_result call for one
\* patient, leave the path, results, confidences, pending validation and
\* outcome of every case of another patient unchanged, and the outcome of
\* every case is the outcome of the same case run alone.
C14_CasesAreIndependent ==
    [][/\ \A u \in Tasks : Steps(u) =>
             \A t \in OtherCases(task[u].patient) : UNCHANGED CaseState(t)
       /\ \A patient_id \in Patients, validation_id \in IssuedIds \cup {StaleId} :
             \A validated_value \in ValidatedValues(validation_id[1], validation_id[2]) :
                validate_result(patient_id, validation_id, validated_value) =>
                   \A t \in OtherCases(patient_id) : UNCHANGED CaseState(t)
       /\ \A t \in Tasks :
             (Alone(t)' /\ Done(t)') =>
                task'[t].outcome = RunAlone(task'[t].patient, task'[t].arg)]_vars

\* two cases of different patients have both run to their end, the steps
\* of one between the steps of the other
C14_Witness ==
    /\ task[1].patient = "PT1" /\ task[2].patient = "PT2"
    /\ Done(1) /\ Done(2)
    /\ task[1].outcome.kind = "result" /\ task[2].outcome.kind = "result"
    /\ task[1].outcome = RunAlone("PT1", task[1].arg)
    /\ task[2].outcome = RunAlone("PT2", task[2].arg)
    /\ Len(task[1].outcome.path) > 1
    /\ \E i \in 1..Len(sess[2].results) : sess[2].results[i][2].validated

(* ------------------------------------------------------------------ *)
(* One case and the clients of the WebSocket endpoint (main.py         *)
(* websocket_endpoint): sockets come and go while the case runs.       *)
(* ------------------------------------------------------------------ *)
\* websocket_endpoint: manager.connect registers the socket; the client
\* may go away ("lost": the next send_json raises); WebSocketDisconnect
\* reaches the endpoint, which calls manager.disconnect
websocket_endpoint(patient_id, event) ==
    /\ CASE event = "connect" ->
              active_connections' = [active_connections EXCEPT ![patient_id] = "open"]
         [] event = "lost" ->
              /\ active_connections[patient_id] = "open"
              /\ active_connections' = [active_connections EXCEPT ![patient_id] = "broken"]
         [] event = "disconnect" ->
              /\ active_connections[patient_id] \in {"open", "broken"}
              /\ active_connections' = [active_connections EXCEPT ![patient_id] = "none"]
    /\ UNCHANGED <<cfgvars, flowchart, task, processing_tasks, active_sessions, sess, events, lg,
                   reply, fnvars>>

NoRequestYet == \A t \in Tasks : task[t].pc = "free"

InitNotify ==
    /\ \E c \in {<<"simple", "mock">>, <<"langgraph", "vllm">>, <<"langgraph", "mock">>} :
          orch = c[1] /\ agent_mode = c[2]
    /\ service \in {"patient_service", "patient_service_sqlite"}
    /\ failing \in FailingSets
    /\ task = [t \in Tasks |-> FreeTask]
    /\ processing_tasks = [p \in Patients |-> 0]
    /\ active_sessions = [p \in Patients |-> 0]
    /\ sess = [t \in Tasks |-> NoSession]
    /\ events = [t \in Tasks |-> FALSE]
    /\ lg = [t \in Tasks |-> NoBTRADSState]
    /\ reply = NoReply
    /\ active_connections = [p \in Patients |-> "none"]
    /\ flowchart = _build_flowchart
    /\ fin = <<>>
    /\ fout = <<>>

NextNotify ==
    \/ \E t \in Tasks, p \in Patients, auto_validate \in BOOLEAN :
          NoRequestYet /\ start_processing_check(t, p, auto_validate)
    \/ \E t \in Tasks : start_processing_create(t)
    \/ \E t \in Tasks : _handle_completion(t)
    \/ \E t \in Tasks, p \in Patients, auto_validate \in BOOLEAN :
          NoRequestYet /\ sqlite_start_processing(t, p, auto_validate)
    \/ \E t \in Tasks : process_patient(t)
    \/ \E t \in Tasks : _process_node(t)
    \/ \E t \in Tasks : _run_agent(t)
    \/ \E patient_id \in Patients, validation_id \in IssuedIds \cup {StaleId} :
          \E validated_value \in ValidatedValues(validation_id[1], validation_id[2]) :
             validate_result(patient_id, validation_id, validated_value)
    \/ \E t \in Tasks : _wait_for_validation(t)
    \/ \E t \in Tasks : lg_process_patient(t)
    \/ \E t \in Tasks : lg_node(t)
    \/ \E t \in Tasks : lg_terminal(t)
    \/ \E p \in Patients, event \in {"connect", "lost", "disconnect"} :
          websocket_endpoint(p, event)

SpecNotify == InitNotify /\ [][NextNotify]_vars

\* C15: a status notification that cannot be delivered (no socket for the
\* patient, or the send raising) never changes the traversal: whatever
\* the sockets do, the nodes visited, the recorded results and the final
\* score of a finished case are those of the run RunAlone computes, in
\* which no notification plays a part.
C15_NotificationsNeverMatter ==
    \A t \in Tasks :
        Done(t) => task[t].outcome = RunAlone(task[t].patient, task[t].arg)

\* a case has returned its result after a send raised (its socket was
\* removed by the failed send)
C15_Witness ==
    \E t \in Tasks :
        /\ task[t].pc = "done" /\ task[t].outcome.kind = "result"
        /\ active_connections[task[t].patient] = "dropped"
        /\ task[t].outcome = RunAlone(task[t].patient, task[t].arg)

(* ------------------------------------------------------------------ *)
(* The volume rules of utils/btrads_calculations.py, called on their   *)
(* own.                                                                *)
(* ------------------------------------------------------------------ *)
\* percent changes in tenths of a percent: the values the specification
\* quotes and both sides of the thresholds 0, 10% and 40%
RulePcts == {-250, -101, -100, 0, 1, 90, 100, 101, 150, 399, 400, 500, 7900}

\* followup - baseline in tenths of a ml, or no volumes given
AbsChanges == {None, Some(-10), Some(-9), Some(5), Some(10)}

\* days since radiation: calculate_days_between returns -1 when a date
\* cannot be parsed; both sides of day 0 and day 90
RuleDays == {-30, -1, 0, 1, 45, 89, 90, 91, 365}

RuleInputs ==
    {FnInput("apply_enhancement_priority_rule", "", Raise,
             Context(Some(flair), Some(enh), None, flair_abs, enh_abs), "", Str(""), <<>>) :
        flair \in RulePcts, enh \in RulePcts,
        flair_abs \in AbsChanges, enh_abs \in AbsChanges}
    \cup {FnInput("get_direction_with_validation", "", Raise,
                  Context(Some(pct), None, None, abs, None), "", Str(""), <<>>) :
        pct \in RulePcts, abs \in AbsChanges}
    \cup {FnInput(op, "", Raise,
                  Context(Some(flair), Some(enh), None, None, None), "", Str(""), <<>>) :
        op \in {"determine_component_worsening", "apply_40_percent_rule"},
        flair \in RulePcts, enh \in RulePcts}
    \cup {FnInput("determine_radiation_timing", "", Raise,
                  Context(None, None, Some(days), None, None), "", Str(""), <<>>) :
        days \in RuleDays}

InitRule ==
    /\ orch = "langgraph"
    /\ agent_mode = "vllm"
    /\ service = "patient_service_sqlite"
    /\ failing = {}
    /\ task = [t \in Tasks |-> FreeTask]
    /\ processing_tasks = [p \in Patients |-> 0]
    /\ active_sessions = [p \in Patients |-> 0]
    /\ sess = [t \in Tasks |-> NoSession]
    /\ events = [t \in Tasks |-> FALSE]
    /\ lg = [t \in Tasks |-> NoBTRADSState]
    /\ reply = NoReply
    /\ active_connections = [p \in Patients |-> "none"]
    /\ flowchart = _build_flowchart
    /\ fin \in RuleInputs
    /\ fout = <<>>

call_apply_enhancement_priority_rule ==
    Returns("apply_enhancement_priority_rule",
            apply_enhancement_priority_rule(Get(fin.ctx.flair_change_pct),
                                            Get(fin.ctx.enhancement_change_pct),
                                            fin.ctx.flair_abs, fin.ctx.enh_abs))
call_get_direction_with_validation ==
    Returns("get_direction_with_validation",
            get_direction_with_validation(Get(fin.ctx.flair_change_pct), fin.ctx.flair_abs))
call_determine_component_worsening ==
    Returns("determine_component_worsening",
            determine_component_worsening(Get(fin.ctx.flair_change_pct),
                                          Get(fin.ctx.enhancement_change_pct)))
call_apply_40_percent_rule ==
    Returns("apply_40_percent_rule",
            apply_40_percent_rule(Get(fin.ctx.flair_change_pct),
                                  Get(fin.ctx.enhancement_change_pct)))

call_determine_radiation_timing ==
    Returns("determine_radiation_timing",
            determine_radiation_timing(Get(fin.ctx.days_since_radiation)))

NextRule ==
    \/ call_determine_radiation_timing
    \/ call_apply_enhancement_priority_rule
    \/ call_get_direction_with_validation
    \/ call_determine_component_worsening
    \/ call_apply_40_percent_rule

SpecRule == InitRule /\ [][NextRule]_vars

\* the call op has returned
Returned(op) == fin.op = op /\ fout # <<>>
FlairPct == Get(fin.ctx.flair_change_pct)
EnhPct == Get(fin.ctx.enhancement_change_pct)

\* the direction of a component as the specification words it: stable
\* when an absolute change below 1 ml is supplied, else by the 10% test
classifyDirection(pctChange, absChange) ==
    IF absChange # None /\ Abs(Get(absChange)) < 10 THEN "stable"
    ELSE IF pctChange > 100 THEN "up"
    ELSE IF pctChange < -100 THEN "down"
    ELSE "stable"
FlairDirection == classifyDirection(FlairPct, fin.ctx.flair_abs)
EnhDirection == classifyDirection(EnhPct, fin.ctx.enh_abs)
NoVolumes == fin.ctx.flair_abs = None /\ fin.ctx.enh_abs = None

\* C16: when the FLAIR and the enhancement directions disagree and
\* neither is stable, the assessment follows the enhancement direction
\* (up: worse, down: improved); (+15, -25) gives improved and (+9, +790)
\* gives worse.
C16_EnhancementWins ==
    Returned("apply_enhancement_priority_rule") =>
        /\ (FlairDirection = "up" /\ EnhDirection = "down") => Get(fout) = "improved"
        /\ (FlairDirection = "down" /\ EnhDirection = "up") => Get(fout) = "worse"
        /\ (FlairPct = 150 /\ EnhPct = -250 /\ NoVolumes) => Get(fout) = "improved"
        /\ (FlairPct = 90 /\ EnhPct = 7900 /\ NoVolumes) => Get(fout) = "worse"

\* the rule has answered (+15, -25)
C16_Witness ==
    /\ Returned("apply_enhancement_priority_rule")
    /\ FlairPct = 150 /\ EnhPct = -250 /\ NoVolumes
    /\ Get(fout) = "improved"

\* C17: when the two directions do not conflict, the assessment is worse
\* if both are up or one is up and the other stable, improved if both
\* are down or one is down and the other stable, and unchanged exactly
\* when both are stable.
C17_AgreeingDirections ==
    Returned("apply_enhancement_priority_rule") =>
        LET dirs == {FlairDirection, EnhDirection}
        IN  /\ (dirs \in {{"up"}, {"up", "stable"}}) => Get(fout) = "worse"
            /\ (dirs \in {{"down"}, {"down", "stable"}}) => Get(fout) = "improved"
            /\ (Get(fout) = "unchanged") <=> (dirs = {"stable"})

\* the rule has answered a pair with one component up and the other one
\* held stable by its absolute change, and a pair of stable components
C17_Witness ==
    /\ Returned("apply_enhancement_priority_rule")
    /\ \/ /\ FlairDirection = "stable" /\ FlairPct > 100
          /\ EnhDirection = "up"
          /\ Get(fout) = "worse"
       \/ /\ FlairDirection = "stable" /\ EnhDirection = "stable"
          /\ Get(fout) = "unchanged"

\* C18: a direction is stable whenever an absolute change below 1 ml is
\* supplied, whatever the percent change (+50% with 0.5 ml is stable);
\* otherwise it is up iff the percent change is above 10, down iff it is
\* below -10, and stable iff it is within [-10, 10].
C18_DirectionOfAComponent ==
    Returned("get_direction_with_validation") =>
        LET abs == fin.ctx.flair_abs
        IN  IF abs # None /\ Abs(Get(abs)) < 10
            THEN Get(fout) = "stable"
            ELSE /\ (Get(fout) = "up") <=> (FlairPct > 100)
                 /\ (Get(fout) = "down") <=> (FlairPct < -100)
                 /\ (Get(fout) = "stable") <=> (FlairPct >= -100 /\ FlairPct <= 100)

\* +50% with an absolute change of 0.5 ml has been classified
C18_Witness ==
    /\ Returned("get_direction_with_validation")
    /\ FlairPct = 500 /\ fin.ctx.flair_abs = Some(5)
    /\ Get(fout) = "stable"

\* C19: a component is worse iff its percent change is strictly above
\* 10; the answer is flair_and_enh (both) when both components are
\* worse, flair_or_enh (one) when exactly one is, and unknown (none)
\* when neither is.
C19_ComponentWorsening ==
    Returned("determine_component_worsening") =>
        LET worse == {c \in {"flair", "enh"} :
                         (IF c = "flair" THEN FlairPct ELSE EnhPct) > 100}
        IN  Get(fout) = CASE Cardinality(worse) = 2 -> "flair_and_enh"
                          [] Cardinality(worse) = 1 -> "flair_or_enh"
                          [] Cardinality(worse) = 0 -> "unknown"

\* a pair with one component at exactly 10% and the other one just above
\* has been answered
C19_Witness ==
    /\ Returned("determine_component_worsening")
    /\ FlairPct = 100 /\ EnhPct = 101
    /\ Get(fout) = "flair_or_enh"

\* C20: with m the larger of the two percent changes, the extent is
\* major when m >= 40 (40.0 included), minor when 0 < m < 40 (39.9 is
\* minor), and unknown (none) when m <= 0.
C20_FortyPercentRule ==
    Returned("apply_40_percent_rule") =>
        LET m == IF FlairPct >= EnhPct THEN FlairPct ELSE EnhPct
        IN  Get(fout) = IF m >= 400 THEN "major"
                        ELSE IF m > 0 THEN "minor"
                        ELSE "unknown"

\* (40.0, 10) has been answered major
C20_Witness ==
    /\ Returned("apply_40_percent_rule")
    /\ FlairPct = 400 /\ EnhPct = 100
    /\ Get(fout) = "major"

\* C21: the radiation timing is unknown for a negative number of days,
\* within_90_days (withinWindow) from day 0 to day 89, and
\* beyond_90_days (beyondWindow) from day 90 on.
C21_RadiationTiming ==
    Returned("determine_radiation_timing") =>
        LET days == Get(fin.ctx.days_since_radiation)
        IN  Get(fout) = IF days < 0 THEN "unknown"
                        ELSE IF days < 90 THEN "within_90_days"
                        ELSE "beyond_90_days"

\* day 90 has been answered beyond the window
C21_Witness ==
    /\ Returned("determine_radiation_timing")
    /\ Get(fin.ctx.days_since_radiation) = 90
    /\ Get(fout) = "beyond_90_days"

(* ------------------------------------------------------------------ *)
(* The final result of a case                                          *)
(* ------------------------------------------------------------------ *)
\* the extraction nodes of a path, each once, in the order of the visits
RECURSIVE ExtractionNodesOf(_)
ExtractionNodesOf(path) ==
    IF path = <<>> THEN <<>>
    ELSE LET before == ExtractionNodesOf(SubSeq(path, 1, Len(path) - 1))
             node == path[Len(path)]
             extraction == IF orch = "simple" THEN ~is_terminal(node)
                           ELSE node \in DOMAIN LGAgent
         IN  IF extraction /\ \A i \in 1..Len(before) : before[i] # node
             THEN Append(before, node) ELSE before

\* the result the extractor of a node returns for a patient
ExtractionResult(p, node) ==
    LET agent == IF orch = "simple" THEN get_node(node).agent ELSE LGAgent[node]
        mode == IF orch = "simple" THEN "mock" ELSE agent_mode
    IN  extract(agent, mode, LLMAnswer(agent, mode, PatientData[p].note),
                _prepare_context(PatientData[p]))

\* C22: the confidence_score of a final result is the mean of the
\* confidences of the extraction results of the traversal, one per
\* extraction node visited, and lies in [0, 1]: the confidences averaged
\* are those of the extraction nodes on the result's path, one each and
\* in the order of the visits, there is at least one, and each lies
\* between 0 and 1.
C22_ConfidenceIsMeanOfTrace ==
    \A t \in Tasks :
        (task[t].pc = "done" /\ task[t].outcome.kind = "result") =>
            LET o == task[t].outcome
                visited == ExtractionNodesOf(o.path)
            IN  /\ Len(o.confidences) = Len(visited)
                /\ Len(o.confidences) > 0
                /\ \A i \in 1..Len(visited) :
                      /\ o.confidences[i] = ExtractionResult(task[t].patient, visited[i]).confidence
                      /\ o.confidences[i] \in 0..100

(* ------------------------------------------------------------------ *)
(* The choice of the next node                                         *)
(* ------------------------------------------------------------------ *)
\* the key a value stands for in the vocabulary of the transition maps:
\* a category is its own key, the record {"has_suitable_prior": b} of the
\* prior assessment stands for yes or no
NormalizedKey(value) ==
    CASE value.k = "str" -> value.v
      [] value.k = "prior" -> IF value.v = "True" THEN "yes" ELSE "no"

\* C23: the next node is the target of the transition whose key equals
\* the normalized key of the value, for category values and for the
\* record of the prior assessment alike; default_next is chosen only
\* when no transition key matches.
C23_NextByNormalizedKey ==
    (fin # <<>> /\ fin.op = "_determine_next_node" /\ fout # <<>>
     /\ (fin.value.k = "str"
         \/ (fin.value.k = "prior" /\ get_node(fin.node).agent = "prior_assessment"))) =>
        LET node == get_node(fin.node)
            key == NormalizedKey(fin.value)
        IN  Get(fout) = IF key \in DOMAIN node.next_nodes
                        THEN node.next_nodes[key]
                        ELSE node.default_next

(* ------------------------------------------------------------------ *)
(* Construction of the decision graph.  BTRADSFlowchart.__init__ keeps *)
(* whatever node table _build_flowchart returns; the tables considered *)
(* are the one of flowchart.py and that table with one defect.         *)
(* ------------------------------------------------------------------ *)
Dangling(node_id, key) ==
    [_build_flowchart EXCEPT ![node_id].next_nodes[key] = "node_missing"]
NoScore(node_id) == [_build_flowchart EXCEPT ![node_id].btrads_score = ""]
NoDefault(node_id) == [_build_flowchart EXCEPT ![node_id].default_next = ""]

NodeTables ==
    {_build_flowchart}
    \cup UNION {{Dangling(n, key) : key \in DOMAIN _build_flowchart[n].next_nodes} :
                   n \in {m \in NodeIds : ~is_terminal(m)}}
    \cup {NoScore(n) : n \in {m \in NodeIds : is_terminal(m)}}
    \cup {NoDefault(n) : n \in {m \in NodeIds : ~is_terminal(m)}}

\* BTRADSFlowchart.__init__: self.nodes = self._build_flowchart()
BTRADSFlowchart(nodes) == [raised |-> "", nodes |-> nodes]

\* AgentOrchestrator.__init__: self.flowchart = BTRADSFlowchart()
AgentOrchestrator(nodes) ==
    LET built == BTRADSFlowchart(nodes)
    IN  IF built.raised # "" THEN built.raised ELSE "constructed"

InitGraph ==
    /\ orch = "simple"
    /\ agent_mode = "mock"
    /\ service = "patient_service_sqlite"
    /\ failing = {}
    /\ task = [t \in Tasks |-> FreeTask]
    /\ processing_tasks = [p \in Patients |-> 0]
    /\ active_sessions = [p \in Patients |-> 0]
    /\ sess = [t \in Tasks |-> NoSession]
    /\ events = [t \in Tasks |-> FALSE]
    /\ lg = [t \in Tasks |-> NoBTRADSState]
    /\ reply = NoReply
    /\ active_connections = [p \in Patients |-> "none"]
    /\ flowchart = <<>>
    /\ fin \in {[op |-> "AgentOrchestrator", nodes |-> nodes] : nodes \in NodeTables}
    /\ fout = <<>>

\* the service constructs its orchestrator; fout records what happened
graph_construct ==
    /\ fout = <<>>
    /\ fout' = <<AgentOrchestrator(fin.nodes)>>
    /\ flowchart' = BTRADSFlowchart(fin.nodes).nodes
    /\ UNCHANGED <<fin, sysvars>>

\* process_patient lines 50-70 on the constructed orchestrator: the case
\* is accepted and enters the first node
graph_process_patient ==
    /\ fout = <<"constructed">>
    /\ fout' = Append(fout, "node_1_suitable_prior")
    /\ UNCHANGED <<fin, sysvars, flowchart>>

\* _process_node on the table: get_node raises for an unknown node id, an
\* outcome node without a score is no BTRADSScore, a lookup that misses
\* needs default_next
graph_process_node ==
    LET node_id == fout[Len(fout)]
        nodes == flowchart
    IN  /\ Len(fout) >= 2
        /\ node_id \in DOMAIN nodes
        /\ IF nodes[node_id].type = "outcome"
           THEN /\ nodes[node_id].btrads_score = ""
                /\ fout' = Append(fout, "ValidationError: score")
           ELSE \E key \in DOMAIN nodes[node_id].next_nodes \cup {"{dict}"} :
                   LET next_node == IF key \in DOMAIN nodes[node_id].next_nodes
                                    THEN nodes[node_id].next_nodes[key]
                                    ELSE nodes[node_id].default_next
                   IN  fout' = Append(fout, IF next_node \in DOMAIN nodes THEN next_node
                                            ELSE "ValueError: Unknown node")
        /\ flowchart' = flowchart_get_node(nodes, node_id).nodes
        /\ UNCHANGED <<fin, sysvars>>

NextGraph ==
    \/ graph_construct
    \/ graph_process_patient
    \/ graph_process_node

SpecGraph == InitGraph /\ [][NextGraph]_vars

\* a table with a transition to a node that does not exist, an outcome
\* node without a score, or an extraction node without default_next
Malformed(nodes) ==
    \E n \in DOMAIN nodes :
        IF nodes[n].type = "outcome" THEN nodes[n].btrads_score = ""
        ELSE \/ nodes[n].default_next = ""
             \/ \E key \in DOMAIN nodes[n].next_nodes :
                   nodes[n].next_nodes[key] \notin DOMAIN nodes

InTraversal(t) == orch = "simple" /\ task[t].pc \in {"node", "extract", "wait"}

\* C25: the session of a case is in active_sessions from the start of
\* process_patient until the case reaches an outcome node or fails, and
\* is absent afterwards, whether the case returned or raised; a
\* validate_result for a patient none of whose cases is in its traversal
\* is rejected with an error.
C25_SessionLifetime ==
    [][/\ \A t \in Tasks :
             /\ InTraversal(t)' => active_sessions'[task'[t].patient] = t
             /\ (orch = "simple" /\ Done(t)') => active_sessions'[task'[t].patient] # t
       /\ \A patient_id \in Patients, validation_id \in IssuedIds \cup {StaleId} :
             \A validated_value \in ValidatedValues(validation_id[1], validation_id[2]) :
                (/\ validate_result(patient_id, validation_id, validated_value)
                 /\ \A t \in Tasks : task[t].patient = patient_id => ~InTraversal(t))
                => reply'.outcome = "No pending validation found"]_vars

(* ------------------------------------------------------------------ *)
(* The decision graph after its construction                           *)
(* ------------------------------------------------------------------ *)
\* C26: no operation of the orchestrator (process_patient, the
\* processing of a node, validate_result) adds, removes or changes a
\* node or an edge of the constructed decision graph.
C26_GraphIsReadOnly ==
    [][flowchart' = flowchart]_vars

\* a node has been processed, a validation has been accepted and a case
\* has ended with a result, and the graph is the one constructed
C26_Witness ==
    /\ orch = "simple"
    /\ reply.outcome = "ok"
    /\ \E t \in Tasks : task[t].pc = "done" /\ task[t].outcome.kind = "result"
    /\ flowchart = _build_flowchart

(* ------------------------------------------------------------------ *)
(* The volume rules with their reasoning, evaluated again and again.   *)
(* A reasoning is kept as its parts: the wording chosen and the        *)
(* numbers formatted into it ({:.1f} of a percentage, {:.2f} of a      *)
(* volume, both exact at the resolution of the model).                 *)
(* ------------------------------------------------------------------ *)
MaxCalls == 3

NoReason == [text |-> "", number |-> 0]
\* get_direction_with_validation: the second component of its result
get_direction_reason(pct_change, abs_change) ==
    IF ~IsNone(abs_change) /\ Abs(Get(abs_change)) < MIN_SIGNIFICANT_ABS_CHANGE
    THEN [text |-> "Absolute change {}ml < 1ml threshold", number |-> Get(abs_change)]
    ELSE IF pct_change > PCT_STABLE THEN [text |-> "Increased {}%", number |-> pct_change]
    ELSE IF pct_change < -PCT_STABLE THEN [text |-> "Decreased {}%", number |-> pct_change]
    ELSE [text |-> "Stable {}% (within +-10%)", number |-> pct_change]

Reasoning(text, flair, enh) == [text |-> text, flair |-> flair, enh |-> enh]

\* apply_enhancement_priority_rule: the reasoning it returns
apply_enhancement_priority_rule_reasoning(flair_change_pct, enh_change_pct, flair_abs, enh_abs) ==
    LET flair_direction == get_direction_with_validation(flair_change_pct, flair_abs)
        enh_direction == get_direction_with_validation(enh_change_pct, enh_abs)
        flair_reason == get_direction_reason(flair_change_pct, flair_abs)
        enh_reason == get_direction_reason(enh_change_pct, enh_abs)
    IN  IF flair_direction # enh_direction /\ flair_direction # "stable"
           /\ enh_direction # "stable"
        THEN Reasoning("Mixed pattern - Enhancement priority: ENH {}", NoReason, enh_reason)
        ELSE IF flair_direction = "up" \/ enh_direction = "up"
        THEN Reasoning("{} and {}",
                       IF flair_direction = "up" THEN flair_reason ELSE NoReason,
                       IF enh_direction = "up" THEN enh_reason ELSE NoReason)
        ELSE IF flair_direction = "down" \/ enh_direction = "down"
        THEN Reasoning("{} and {}",
                       IF flair_direction = "down" THEN flair_reason ELSE NoReason,
                       IF enh_direction = "down" THEN enh_reason ELSE NoReason)
        ELSE Reasoning("FLAIR {}, ENH {}", flair_reason, enh_reason)

\* determine_component_worsening: the reasoning it returns
determine_component_worsening_reasoning(flair_change_pct, enh_change_pct) ==
    LET flair_worse == flair_change_pct > PCT_STABLE
        enh_worse == enh_change_pct > PCT_STABLE
        numbers == Reasoning("", [text |-> "{}%", number |-> flair_change_pct],
                             [text |-> "{}%", number |-> enh_change_pct])
    IN  IF flair_worse /\ enh_worse
        THEN [numbers EXCEPT !.text = "Both components worse: FLAIR +{}, ENH +{}"]
        ELSE IF flair_worse
        THEN [numbers EXCEPT !.text = "FLAIR worse: +{} (ENH {})"]
        ELSE IF enh_worse
        THEN [numbers EXCEPT !.text = "Enhancement worse: +{} (FLAIR {})"]
        ELSE [numbers EXCEPT !.text = "No significant worsening: FLAIR {}, ENH {}"]

\* the arguments of the calls made
PureArgs ==
    {[op |-> op, flair |-> flair, enh |-> enh] :
        op \in {"apply_enhancement_priority_rule", "determine_component_worsening"},
        flair \in {-250, 90, 150}, enh \in {-250, 90, 150}}

\* an evaluation that keeps the FLAIR change of the call before it
EvaluateStale(earlier, args) ==
    LET flair == IF earlier # <<>> THEN earlier[Len(earlier)].args.flair ELSE args.flair
    IN  IF args.op = "apply_enhancement_priority_rule"
        THEN [category |-> apply_enhancement_priority_rule(flair, args.enh, None, None),
              reasoning |-> apply_enhancement_priority_rule_reasoning(flair, args.enh,
                                                                      None, None)]
        ELSE [category |-> determine_component_worsening(flair, args.enh),
              reasoning |-> determine_component_worsening_reasoning(flair, args.enh)]

\* the (category, reasoning) pair a call returns after the calls earlier:
\* the functions read their arguments and nothing else
Evaluate(earlier, args) ==
    IF args.op = "apply_enhancement_priority_rule"
    THEN [category |-> apply_enhancement_priority_rule(args.flair, args.enh, None, None),
          reasoning |-> apply_enhancement_priority_rule_reasoning(args.flair, args.enh,
                                                                  None, None)]
    ELSE [category |-> determine_component_worsening(args.flair, args.enh),
          reasoning |-> determine_component_worsening_reasoning(args.flair, args.enh)]

InitPure ==
    /\ \E c \in {<<"simple", "mock">>, <<"langgraph", "vllm">>, <<"langgraph", "mock">>} :
          orch = c[1] /\ agent_mode = c[2]
    /\ service = "patient_service_sqlite"
    /\ failing = {}
    /\ task = [t \in Tasks |-> FreeTask]
    /\ processing_tasks = [p \in Patients |-> 0]
    /\ active_sessions = [p \in Patients |-> 0]
    /\ sess = [t \in Tasks |-> NoSession]
    /\ events = [t \in Tasks |-> FALSE]
    /\ lg = [t \in Tasks |-> NoBTRADSState]
    /\ reply = NoReply
    /\ active_connections = [p \in Patients |-> "none"]
    /\ flowchart = _build_flowchart
    /\ fin = <<>>
    /\ fout = <<>>

\* one more call of a rule: fout is the sequence of the calls made
call_rule ==
    /\ Len(fout) < MaxCalls
    /\ \E args \in PureArgs :
          fout' = Append(fout, [args |-> args, result |-> Evaluate(fout, args)])
    /\ UNCHANGED <<fin, sysvars, flowchart>>

NextPure == call_rule

SpecPure == InitPure /\ [][NextPure]_vars

ValueOf(t, agent) ==
    LET results == StoredResults(t)
        found == {i \in 1..Len(results) : results[i][1] = agent}
    IN  IF found = {} THEN None
        ELSE Some(results[CHOOSE i \in found : TRUE][2].value)

\* the node of a graph that runs an agent
NodeOf(agent) ==
    IF orch = "simple"
    THEN CHOOSE n \in NodeIds : ~is_terminal(n) /\ get_node(n).agent = agent
    ELSE CHOOSE n \in DOMAIN LGAgent : LGAgent[n] = agent

Entered(t, node) == \E i \in 1..Len(task[t].outcome.path) : task[t].outcome.path[i] = node

\* a traversal that ran alone and returned a result
Finished(t) == Alone(t) /\ task[t].pc = "done" /\ task[t].outcome.kind = "result"

\* C28: a case whose prior-assessment value is no ends with score 0 and
\* runs no extractor after the prior assessment; a case whose value is
\* yes or unknown enters the imaging-assessment node.
C28_NoPriorEndsAtScore0 ==
    \A t \in Tasks :
        (Finished(t) /\ ValueOf(t, "prior_assessment") # None
         /\ Get(ValueOf(t, "prior_assessment")).k \in {"str", "prior"}) =>
            LET key == NormalizedKey(Get(ValueOf(t, "prior_assessment")))
            IN  /\ key = "no" =>
                    /\ task[t].outcome.score = "0"
                    /\ Len(StoredResults(t)) = 1
                /\ key \in {"yes", "unknown"} =>
                    Entered(t, NodeOf("imaging_comparison"))

\* C29: a case whose imaging assessment is unchanged ends with score 2
\* and enters neither the improved pathway (the medication node) nor the
\* worse pathway (the radiation node).
C29_UnchangedEndsAtScore2 ==
    \A t \in Tasks :
        (Finished(t) /\ ValueOf(t, "imaging_comparison") = Some(Str("unchanged"))) =>
            /\ task[t].outcome.score = "2"
            /\ ~Entered(t, IF orch = "simple" THEN "node_3a_medications"
                           ELSE NodeOf("medication_status"))
            /\ ~Entered(t, NodeOf("radiation_timeline"))

(* ------------------------------------------------------------------ *)
(* One case on its own, with working extractors and automatic          *)
(* validation, for patients on every pathway; and the score table      *)
(* get_btrads_score applied to the categories of the same patients.    *)
(* fin: the call and the patient; fout: the case so far.               *)
(* ------------------------------------------------------------------ *)
\* utils/btrads_calculations.py get_btrads_score.  algorithm_path: the
\* markers the path string contains
get_btrads_score(algorithm_path, imaging_assessment, medication_status, radiation_timing, component_worsening, extent, progression_pattern) ==
    IF {"suitable_prior", "BT-0"} \subseteq algorithm_path THEN "0"
    ELSE IF imaging_assessment = "unchanged" THEN "2"
    ELSE IF imaging_assessment = "improved"
    THEN IF medication_status \in {"avastin", "increasing_steroids"} THEN "1b" ELSE "1a"
    ELSE IF imaging_assessment = "worse" /\ radiation_timing = "within_90_days" THEN "3a"
    ELSE IF imaging_assessment = "worse" /\ component_worsening = "flair_or_enh" THEN "3b"
    ELSE IF imaging_assessment = "worse" /\ component_worsening = "flair_and_enh"
            /\ extent = "major" THEN "4"
    ELSE IF imaging_assessment = "worse" /\ component_worsening = "flair_and_enh"
            /\ extent = "minor"
    THEN IF progression_pattern = "yes" THEN "4" ELSE "3c"
    ELSE "3b"

\* the volume changes of the patients, in tenths of a percent: absent,
\* both within 10%, one or both above 10%, below and above 40%
CaseVolumes ==
    {<<None, None>>, <<Some(50), Some(-30)>>, <<Some(150), Some(-250)>>,
     <<Some(150), Some(150)>>, <<Some(150), Some(450)>>, <<Some(450), Some(450)>>}
\* days since radiation: unknown, inside and outside the 90-day window
CaseDays == {None, Some(45), Some(120)}

\* the patients: each has a suitable prior and is on no medication
Cases ==
    {[flair_change_percentage |-> v[1], enhancement_change_percentage |-> v[2],
      days_since_radiation |-> days,
      note |-> Note("yes", imaging, "none", "none",
                    IF days = None THEN "unknown"
                    ELSE determine_radiation_timing(Get(days)),
                    component, extent, progression)] :
        v \in CaseVolumes, days \in CaseDays, imaging \in {"unchanged", "worse"},
        component \in {"flair_or_enh", "flair_and_enh", "unknown"},
        extent \in {"major", "minor", "unknown"},
        progression \in {"yes", "no", "unknown"}}

NewCase(node) ==
    [node |-> node, path |-> <<>>, decisions |-> <<>>, results |-> <<>>,
     score |-> "", raised |-> ""]

InitPath ==
    /\ \E c \in {<<"simple", "mock">>, <<"langgraph", "vllm">>, <<"langgraph", "mock">>} :
          orch = c[1] /\ agent_mode = c[2]
    /\ service = "patient_service_sqlite"
    /\ failing = {}
    /\ task = [t \in Tasks |-> FreeTask]
    /\ processing_tasks = [p \in Patients |-> 0]
    /\ active_sessions = [p \in Patients |-> 0]
    /\ sess = [t \in Tasks |-> NoSession]
    /\ events = [t \in Tasks |-> FALSE]
    /\ lg = [t \in Tasks |-> NoBTRADSState]
    /\ reply = NoReply
    /\ active_connections = [p \in Patients |-> "none"]
    /\ flowchart = _build_flowchart
    /\ fin \in {[op |-> op, data |-> data] :
                   op \in {"process_patient", "get_btrads_score"}, data \in Cases}
    /\ fout = <<>>

\* the case so far: before the first step it stands at the entry node
CaseNow ==
    IF fout # <<>> THEN Get(fout)
    ELSE NewCase(IF orch = "simple" THEN "node_1_suitable_prior" ELSE "prior_assessment")

\* the result the extractor of an agent returns for the patient
CaseResult(agent) ==
    LET mode == IF orch = "simple" THEN "mock" ELSE agent_mode
    IN  extract(agent, mode, LLMAnswer(agent, mode, fin.data.note),
                _prepare_context(fin.data))
CaseValue(agent) == CaseResult(agent).value

\* AgentOrchestrator._process_node for the node the case stands at (an
\* outcome node: process_patient lines 73-99)
case_process_node ==
    LET c == CaseNow
        node == get_node(c.node)
        agent_result == CaseResult(node.agent)
    IN  /\ fin.op = "process_patient" /\ orch = "simple"
        /\ c.score = "" /\ c.raised = ""
        /\ fout' = Some(
              IF node.type = "outcome"
              THEN [c EXCEPT !.path = Append(@, c.node), !.score = node.btrads_score]
              ELSE IF node.agent \notin agents
              THEN [c EXCEPT !.path = Append(@, c.node),
                             !.raised = "ValueError: Unknown agent"]
              ELSE [c EXCEPT !.path = Append(Append(@, c.node), c.node),
                             !.results = Put(@, node.agent, agent_result),
                             !.decisions = Put(@, c.node, agent_result.value),
                             !.node = _determine_next_node(node, agent_result.value)])
        /\ UNCHANGED <<fin, sysvars, flowchart>>

\* one node of the compiled graph and the conditional edge after it; a
\* terminal node sets the score
case_graph_node ==
    LET c == CaseNow
        agent == LGAgent[c.node]
        result == CaseResult(agent)
        decision == LGDecision(c.node, result.value, _prepare_context(fin.data))
        decisions == Put(c.decisions, decision[1], decision[2])
    IN  /\ fin.op = "process_patient" /\ orch = "langgraph"
        /\ c.score = "" /\ c.raised = ""
        /\ fout' = Some(
              IF c.node \in DOMAIN LGTerminal
              THEN [c EXCEPT !.path = Append(@, c.node),
                             !.score = StripBT(LGTerminal[c.node])]
              ELSE [c EXCEPT !.path = Append(@, c.node),
                             !.results = Put(@, agent, result),
                             !.decisions = decisions,
                             !.node = LGRoute(c.node, decisions)])
        /\ UNCHANGED <<fin, sysvars, flowchart>>

\* get_btrads_score on the categories the extractors return for the
\* patient, whose path does not end at BT-0
call_get_btrads_score ==
    /\ fin.op = "get_btrads_score"
    /\ fout = <<>>
    /\ fout' = Some([CaseNow EXCEPT !.score =
                        get_btrads_score({"suitable_prior"},
                            CaseValue("imaging_comparison").v, "none",
                            CaseValue("radiation_timeline").v,
                            CaseValue("component_analysis").v,
                            CaseValue("extent_analysis").v,
                            CaseValue("progression_pattern").v)])
    /\ UNCHANGED <<fin, sysvars, flowchart>>

NextPath ==
    \/ case_process_node
    \/ case_graph_node
    \/ call_get_btrads_score

SpecPath == InitPath /\ [][NextPath]_vars

\* the case has ended with a score
Scored == fout # <<>> /\ Get(fout).score # ""
\* the worse pathway, beyond the 90-day window, both components worse
BothWorseBeyondWindow ==
    /\ CaseValue("imaging_comparison") = Str("worse")
    /\ CaseValue("radiation_timeline") = Str("beyond_90_days")
    /\ CaseValue("component_analysis") = Str("flair_and_enh")

\* C30: on the worse pathway beyond the 90-day window with both
\* components worse, the case ends with score 4 if the extent is major,
\* or is minor with the progression check answering yes, and with score
\* 3c if the extent is minor and the progression check does not answer
\* yes.
C30_ExtentAndProgression ==
    (Scored /\ BothWorseBeyondWindow) =>
        LET extent == CaseValue("extent_analysis")
            progression == CaseValue("progression_pattern")
        IN  /\ extent = Str("major") => Get(fout).score = "4"
            /\ (extent = Str("minor") /\ progression = Str("yes")) => Get(fout).score = "4"
            /\ (extent = Str("minor") /\ progression # Str("yes")) => Get(fout).score = "3c"

(* ------------------------------------------------------------------ *)
(* The agent registry                                                  *)
(* ------------------------------------------------------------------ *)
\* C31: every extraction node a traversal of the flowchart stands at
\* names an agent registered in AgentOrchestrator.agents, and no
\* traversal ends with the unknown-agent error of _run_agent.
C31_NodesNameRegisteredAgents ==
    \A t \in Tasks :
        /\ (orch = "simple" /\ task[t].pc \in {"node", "extract", "wait"}
            /\ flowchart[task[t].node].type # "outcome") =>
               flowchart[task[t].node].agent \in agents
        /\ task[t].outcome # Exception("ValueError: Unknown agent")

(* ------------------------------------------------------------------ *)
(* The three encodings of the algorithm on the same decision values:   *)
(* the flowchart, the compiled graph and the score table.  fin is the  *)
(* assignment of a category to every extraction step, fout the score   *)
(* each encoding has given so far.                                     *)
(* ------------------------------------------------------------------ *)
Assignments ==
    [prior : {"yes", "no", "unknown"},
     imaging : {"improved", "unchanged", "worse", "unknown"},
     medication : {"avastin", "increasing_steroids", "neither", "unknown"},
     radiation : {"within_90_days", "beyond_90_days", "unknown"},
     component : {"flair_or_enh", "flair_and_enh", "unknown"},
     extent : {"major", "minor", "unknown"},
     progression : {"yes", "no", "unknown"}]

\* the category an assignment gives the agent of a flowchart node; the
\* two follow-up nodes of the medication node have no step of their own
DecisionFor(d, agent) ==
    CASE agent = "prior_assessment" -> d.prior
      [] agent = "imaging_comparison" -> d.imaging
      [] agent = "medication_effects" -> d.medication
      [] agent = "radiation_timeline" -> d.radiation
      [] agent = "component_analysis" -> d.component
      [] agent = "extent_analysis" -> d.extent
      [] agent = "progression_pattern" -> d.progression
      [] OTHER -> "unknown"

\* BTRADSFlowchart walked with get_next_node from node_id to an outcome
RECURSIVE flowchart_score(_, _)
flowchart_score(node_id, d) ==
    LET node == get_node(node_id)
    IN  IF node.type = "outcome" THEN node.btrads_score
        ELSE flowchart_score(Get(get_next_node(node_id, DecisionFor(d, node.agent))), d)

\* the value and the context a graph node finds for an assignment
GraphValue(d, node) ==
    CASE node = "prior_assessment" -> Str(d.prior)
      [] node = "imaging_comparison" -> Str(d.imaging)
      [] node = "medication_check" ->
           MedDict(IF d.medication = "increasing_steroids" THEN "increasing"
                   ELSE IF d.medication = "unknown" THEN "unknown" ELSE "none",
                   IF d.medication = "avastin" THEN "ongoing"
                   ELSE IF d.medication = "unknown" THEN "unknown" ELSE "none")
      [] node = "radiation_check" -> Str(d.radiation)
      [] node = "component_analysis" -> Str(d.component)
      [] node = "extent_analysis" -> Str(d.extent)
      [] node = "progression_pattern" -> Str(d.progression)
GraphContext(d) ==
    Context(None, None,
            IF d.radiation = "within_90_days" THEN Some(45)
            ELSE IF d.radiation = "beyond_90_days" THEN Some(120) ELSE None,
            None, None)

\* the compiled graph run from node to a terminal node
RECURSIVE graph_score(_, _, _)
graph_score(node, d, decisions) ==
    IF node \in DOMAIN LGTerminal THEN StripBT(LGTerminal[node])
    ELSE LET decision == LGDecision(node, GraphValue(d, node), GraphContext(d))
             after == Put(decisions, decision[1], decision[2])
         IN  graph_score(LGRoute(node, after), d, after)

\* get_btrads_score on the categories of an assignment
table_score(d) ==
    get_btrads_score(IF d.prior = "no" THEN {"suitable_prior", "BT-0"}
                     ELSE {"suitable_prior"},
                     d.imaging, d.medication, d.radiation, d.component, d.extent,
                     d.progression)

NoScores == [flowchart |-> "", graph |-> "", table |-> ""]

InitEquiv ==
    /\ orch = "langgraph"
    /\ agent_mode = "vllm"
    /\ service = "patient_service_sqlite"
    /\ failing = {}
    /\ task = [t \in Tasks |-> FreeTask]
    /\ processing_tasks = [p \in Patients |-> 0]
    /\ active_sessions = [p \in Patients |-> 0]
    /\ sess = [t \in Tasks |-> NoSession]
    /\ events = [t \in Tasks |-> FALSE]
    /\ lg = [t \in Tasks |-> NoBTRADSState]
    /\ reply = NoReply
    /\ active_connections = [p \in Patients |-> "none"]
    /\ flowchart = _build_flowchart
    /\ fin \in Assignments
    /\ fout = NoScores

walk_flowchart ==
    /\ fout.flowchart = ""
    /\ fout' = [fout EXCEPT !.flowchart = flowchart_score("node_1_suitable_prior", fin)]
    /\ UNCHANGED <<fin, sysvars, flowchart>>

run_graph ==
    /\ fout.graph = ""
    /\ fout' = [fout EXCEPT !.graph = graph_score("prior_assessment", fin, <<>>)]
    /\ UNCHANGED <<fin, sysvars, flowchart>>

evaluate_table ==
    /\ fout.table = ""
    /\ fout' = [fout EXCEPT !.table = table_score(fin)]
    /\ UNCHANGED <<fin, sysvars, flowchart>>

NextEquiv ==
    \/ walk_flowchart
    \/ run_graph
    \/ evaluate_table

SpecEquiv == InitEquiv /\ [][NextEquiv]_vars

\* C32: for every assignment of decision values the flowchart, the
\* compiled graph and get_btrads_score give the same score.
C32_ThreeEncodingsAgree ==
    (fout.flowchart # "" /\ fout.graph # "" /\ fout.table # "") =>
        /\ fout.flowchart = fout.graph
        /\ fout.graph = fout.table

(* ------------------------------------------------------------------ *)
(* The places that decide whether radiation was recent, each called on *)
(* its own with a day count.                                           *)
(* ------------------------------------------------------------------ *)
\* agents/extraction/radiation_timeline.py extract, lines 53-64:
\* within_90_days of the result, time_since_radiation being None when a
\* date is missing
RadiationTimeline_within_90_days(time_since_radiation) ==
    IF IsNone(time_since_radiation) THEN FALSE
    ELSE Get(time_since_radiation) <= DAYS_WINDOW

\* radiation_timeline_vllm.py _fallback_parse, lines 212-217: the day
\* count "(\d+) days since" read from the answer
_fallback_parse_days(days) ==
    IF days <= DAYS_WINDOW THEN "within_90_days" ELSE "beyond_90_days"

\* langgraph_orchestrator.py _radiation_check_node, lines 323-325, and
\* _route_from_radiation
_radiation_check_node(ctx) ==
    _route_from_radiation(<<LGDecision("radiation_check", Str("unknown"), ctx)>>) = "bt_3a"

\* day counts on both sides of day 0 and day 90
TimingDays == (-5 .. 5) \cup (85 .. 95) \cup {45, 365}

TimingInputs ==
    {FnInput(op, "", Raise, Context(None, None, days, None, None), "", Str(""), <<>>) :
        op \in {"RadiationTimelineAgent.extract", "_radiation_check_node"},
        days \in {None} \cup {Some(d) : d \in TimingDays}}
    \cup {FnInput("determine_radiation_timing", "", Raise,
                  Context(None, None, Some(d), None, None), "", Str(""), <<>>) :
        d \in TimingDays}
    \cup {FnInput("_fallback_parse", "", Raise,
                  Context(None, None, Some(d), None, None), "", Str(""), <<>>) :
        d \in {x \in TimingDays : x >= 0}}

InitTiming ==
    /\ orch = "langgraph"
    /\ agent_mode = "vllm"
    /\ service = "patient_service_sqlite"
    /\ failing = {}
    /\ task = [t \in Tasks |-> FreeTask]
    /\ processing_tasks = [p \in Patients |-> 0]
    /\ active_sessions = [p \in Patients |-> 0]
    /\ sess = [t \in Tasks |-> NoSession]
    /\ events = [t \in Tasks |-> FALSE]
    /\ lg = [t \in Tasks |-> NoBTRADSState]
    /\ reply = NoReply
    /\ active_connections = [p \in Patients |-> "none"]
    /\ flowchart = _build_flowchart
    /\ fin \in TimingInputs
    /\ fout = <<>>

call_RadiationTimelineAgent_extract ==
    Returns("RadiationTimelineAgent.extract",
            IF RadiationTimeline_within_90_days(fin.ctx.days_since_radiation)
            THEN "within_90_days" ELSE "not_within_90_days")
call_fallback_parse ==
    Returns("_fallback_parse", _fallback_parse_days(Get(fin.ctx.days_since_radiation)))
call_radiation_check_node ==
    Returns("_radiation_check_node",
            IF _radiation_check_node(fin.ctx) THEN "within_90_days" ELSE "not_within_90_days")

NextTiming ==
    \/ call_determine_radiation_timing
    \/ call_RadiationTimelineAgent_extract
    \/ call_fallback_parse
    \/ call_radiation_check_node

SpecTiming == InitTiming /\ [][NextTiming]_vars

\* C33: every place that decides whether radiation was recent answers
\* within the window exactly when determine_radiation_timing does for
\* the same day count: never for day 90, for a negative day count or for
\* a missing one.
C33_TimingAgrees ==
    (fout # <<>> /\ fin \in TimingInputs) =>
        LET days == fin.ctx.days_since_radiation
        IN  (Get(fout) = "within_90_days") <=>
                (days # None /\ determine_radiation_timing(Get(days)) = "within_90_days")

(* ------------------------------------------------------------------ *)
(* The path of the final result                                        *)
(* ------------------------------------------------------------------ *)
\* the value a finished traversal used to select the successor of an
\* extraction node
RoutedValue(t, node) ==
    IF orch = "simple"
    THEN DictGet(sess[t].results, get_node(node).agent, [validated_value |-> ErrDict]).validated_value
    ELSE DictGet(lg[t].results, LGAgent[node], [value |-> ErrDict]).value

\* C34: the path of a final result lists every traversed node once, in
\* the order of the traversal, from the entry node to the terminal node,
\* and records for every extraction node on it exactly one decision: the
\* value that selected the node's successor.
C34_PathAndDecisions ==
    \A t \in Tasks :
        Finished(t) =>
            LET path == task[t].outcome.path
                decisions == task[t].outcome.decisions
                extraction(n) == IF orch = "simple" THEN n \in NodeIds /\ ~is_terminal(n)
                                 ELSE n \in DOMAIN LGAgent
            IN  /\ \A i, j \in 1..Len(path) : path[i] = path[j] => i = j
                /\ path # <<>>
                /\ path[1] = IF orch = "simple" THEN "node_1_suitable_prior" ELSE "start"
                /\ IF orch = "simple" THEN is_terminal(path[Len(path)])
                   ELSE path[Len(path)] \in DOMAIN LGTerminal
                /\ \A i \in 1..Len(path) :
                      extraction(path[i]) =>
                         /\ Cardinality({k \in 1..Len(decisions) :
                                            decisions[k][1] = path[i]}) = 1
                         /\ DictGet(decisions, path[i], OtherDict) = RoutedValue(t, path[i])

(* ------------------------------------------------------------------ *)
(* Resolution of a pending validation                                  *)
(* ------------------------------------------------------------------ *)
\* validate_result has already been accepted for the validation id
AlreadyResolved(patient_id, validation_id) ==
    /\ active_sessions[patient_id] # 0
    /\ sess[active_sessions[patient_id]].pending # None
    /\ sess[active_sessions[patient_id]].pending[1].id = validation_id
    /\ sess[active_sessions[patient_id]].pending[1].validated_value # None

\* C35: a validation id is resolved at most once: a validate_result call
\* with an id that was already accepted is rejected and leaves the
\* sessions, and with them the value the traversal records, unchanged.
C35_ResolvedAtMostOnce ==
    [][\A validation_id \in IssuedIds :
          \A validated_value \in ValidatedValues(validation_id[1], validation_id[2]) :
             (/\ AlreadyResolved(validation_id[1], validation_id)
              /\ validate_result(validation_id[1], validation_id, validated_value))
             => /\ reply'.outcome # "ok"
                /\ UNCHANGED sess]_vars


(* ------------------------------------------------------------------ *)
(* The manual gate on its own: AgentOrchestrator behind                *)
(* patient_service_sqlite, whose tasks always run in manual mode, with *)
(* a clinician who may submit either what the note says or "unknown".  *)
(* The event loop runs every coroutine that is ready, so each step of  *)
(* a traversal is weakly fair; nothing obliges a clinician to answer.  *)
(* ------------------------------------------------------------------ *)
GateValues(patient_id, node_id) ==
    ValidatedValues(patient_id, node_id) \cup {Str("unknown")}

InitGate ==
    /\ orch = "simple"
    /\ agent_mode = "mock"
    /\ service = "patient_service_sqlite"
    /\ failing \in FailingSets
    /\ task = [t \in Tasks |-> FreeTask]
    /\ processing_tasks = [p \in Patients |-> 0]
    /\ active_sessions = [p \in Patients |-> 0]
    /\ sess = [t \in Tasks |-> NoSession]
    /\ events = [t \in Tasks |-> FALSE]
    /\ lg = [t \in Tasks |-> NoBTRADSState]
    /\ reply = NoReply
    /\ active_connections = [p \in Patients |-> "none"]
    /\ flowchart = _build_flowchart
    /\ fin = <<>>
    /\ fout = <<>>

NextGate ==
    \/ \E t \in Tasks, p \in Patients, auto_validate \in BOOLEAN :
          sqlite_start_processing(t, p, auto_validate)
    \/ \E t \in Tasks : process_patient(t)
    \/ \E t \in Tasks : _process_node(t)
    \/ \E t \in Tasks : _run_agent(t)
    \/ \E patient_id \in Patients, validation_id \in IssuedIds \cup {StaleId} :
          \E validated_value \in GateValues(validation_id[1], validation_id[2]) :
             validate_result(patient_id, validation_id, validated_value)
    \/ \E t \in Tasks : _wait_for_validation(t)

SpecGate ==
    /\ InitGate
    /\ [][NextGate]_vars
    /\ \A t \in Tasks : /\ WF_vars(process_patient(t))
                        /\ WF_vars(_process_node(t))
                        /\ WF_vars(_run_agent(t))
                        /\ WF_vars(_wait_for_validation(t))

\* the traversal of task t is suspended at node and a validate_result
\* call that supplied value has been accepted for its pending validation
AcceptedWith(t, node, value) ==
    /\ task[t].pc = "wait"
    /\ task[t].node = node
    /\ events[t]
    /\ sess[task[t].wref].pending # None
    /\ sess[task[t].wref].pending[1].event = t
    /\ sess[task[t].wref].pending[1].validated_value = Some(value)

\* the traversal of task t has recorded value as the decision of node and
\* has gone on to the node that value selects
ResumedWith(t, node, value) ==
    LET session == sess[t]
    IN  /\ DictGet(session.decisions, node, Str("")) = value
        /\ \E i \in 1..(Len(session.path) - 1) :
               /\ session.path[i] = node
               /\ session.path[i + 1] = _determine_next_node(get_node(node), value)

GateNodes == {"node_1_suitable_prior", "node_2_imaging_assessment"}

\* C36: in manual mode, whenever validate_result is accepted for the
\* pending validation of a suspended traversal, the traversal eventually
\* resumes, records exactly the value that call supplied and goes on to
\* the node that value selects: no accepted resolution is lost
C36_AcceptedValueIsRecorded ==
    \A t \in Tasks : \A node \in GateNodes : \A p \in Patients :
        \A value \in GateValues(p, node) :
            (AcceptedWith(t, node, value) /\ task[t].patient = p)
               ~> ResumedWith(t, node, value)


(* ------------------------------------------------------------------ *)
(* services/validation_service.py.  fin holds the service and the      *)
(* table it writes: whether set_orchestrator has been called, and the  *)
(* validation_status of the stored agent_results rows of each patient, *)
(* oldest first.  fout is the outcome of the last call of the service. *)
(* Nothing in the repository inserts the rows: they are stored data.   *)
(* ------------------------------------------------------------------ *)
AgentResultsRows == {<<>>, <<"pending">>, <<"approved", "pending">>}

ValidationService(orchestrator, agent_results) ==
    [orchestrator |-> orchestrator, agent_results |-> agent_results]

InitService ==
    /\ orch = "simple"
    /\ agent_mode = "mock"
    /\ service = "patient_service_sqlite"
    /\ failing = {}
    /\ task = [t \in Tasks |-> FreeTask]
    /\ processing_tasks = [p \in Patients |-> 0]
    /\ active_sessions = [p \in Patients |-> 0]
    /\ sess = [t \in Tasks |-> NoSession]
    /\ events = [t \in Tasks |-> FALSE]
    /\ lg = [t \in Tasks |-> NoBTRADSState]
    /\ reply = NoReply
    /\ active_connections = [p \in Patients |-> "none"]
    /\ flowchart = _build_flowchart
    /\ \E rows \in AgentResultsRows :
          fin = ValidationService(FALSE, [p \in Patients |-> rows])
    /\ fout = ""

\* ValidationService.set_orchestrator
set_orchestrator ==
    /\ ~fin.orchestrator
    /\ fin' = [fin EXCEPT !.orchestrator = TRUE]
    /\ UNCHANGED <<fout, sysvars, flowchart>>

\* the UPDATE of lines 34-55: the latest pending row of the patient
\* becomes approved
HasPendingRow(rows) == \E i \in 1..Len(rows) : rows[i] = "pending"
ApproveLatestPending(rows) ==
    LET last == CHOOSE i \in 1..Len(rows) :
                   /\ rows[i] = "pending"
                   /\ \A j \in (i + 1)..Len(rows) : rows[j] # "pending"
    IN  [rows EXCEPT ![last] = "approved"]

\* ValidationService.validate_result lines 18-72.  fetchrow: the session
\* that utils/database.py yields has no fetchrow (AttributeError); a
\* connection that has one executes the statement, and lines 32-72 open
\* no transaction around it
ValidationService_validate_result(patient_id, validation_id, validated_value, fetchrow) ==
    LET rows == fin.agent_results[patient_id]
    IN  IF ~fin.orchestrator
        THEN /\ fout' = "Orchestrator not initialized"
             /\ UNCHANGED <<fin, sysvars, flowchart>>
        ELSE IF fetchrow = "AttributeError"
        THEN /\ fout' = "AttributeError"
             /\ UNCHANGED <<fin, sysvars, flowchart>>
        ELSE IF ~HasPendingRow(rows)
        THEN /\ fout' = "No pending validation found"
             /\ UNCHANGED <<fin, sysvars, flowchart>>
        ELSE /\ fin' = [fin EXCEPT !.agent_results[patient_id] = ApproveLatestPending(rows)]
             /\ AgentOrchestrator_validate_result(patient_id, validation_id, validated_value)
             /\ fout' = reply'.outcome

NextService ==
    \/ \E t \in Tasks, p \in Patients :
          sqlite_start_processing(t, p, FALSE)
    \/ \E t \in Tasks : process_patient(t)
    \/ \E t \in Tasks : _process_node(t)
    \/ \E t \in Tasks : _run_agent(t)
    \/ \E t \in Tasks : _wait_for_validation(t)
    \/ set_orchestrator
    \/ \E patient_id \in Patients, validation_id \in IssuedIds \cup {StaleId} :
          \E validated_value \in ValidatedValues(validation_id[1], validation_id[2]) :
             \E fetchrow \in {"AttributeError", "executes"} :
                ValidationService_validate_result(patient_id, validation_id,
                                                  validated_value, fetchrow)

SpecService == InitService /\ [][NextService]_vars

\* the orchestrator rejects a validation of this patient with this id
OrchestratorRejects(patient_id, validation_id) ==
    \/ active_sessions[patient_id] = 0
    \/ sess[active_sessions[patient_id]].pending = None
    \/ IsMismatch(patient_id, validation_id)

AttemptOutcomes(agent) ==
    {Raise} \cup {r \in Responses(agent) :
                    /\ r.a \in {"worse", "stable", "flair_and_enh", "mixed", "major", "extensive"}
                    /\ r.b \in {"unknown", "true", ""}
                    /\ r.c \in {"unknown", "true", ""}
                    /\ ~r.flag}

RetryInputs ==
    {[op |-> "VLLMBaseAgent.extract", agent |-> agent, attempts |-> attempts, ctx |-> ctx] :
        agent \in {"imaging_comparison"},
        attempts \in [1..max_retries -> AttemptOutcomes("imaging_comparison")],
        ctx \in {NoContext}}
    \cup {[op |-> "VLLMBaseAgent.extract", agent |-> agent, attempts |-> attempts, ctx |-> ctx] :
        agent \in {"component_analysis"},
        attempts \in [1..max_retries -> AttemptOutcomes("component_analysis")],
        ctx \in {NoContext}}
    \cup {[op |-> "VLLMBaseAgent.extract", agent |-> agent, attempts |-> attempts, ctx |-> ctx] :
        agent \in {"extent_analysis"},
        attempts \in [1..max_retries -> AttemptOutcomes("extent_analysis")],
        ctx \in {NoContext}}

\* lines 131-138: the attempt ends the loop
AttemptSucceeds(agent, r, ctx) ==
    /\ r.fmt # "raise"
    /\ validate_extraction(agent, parse_response(agent, r, ctx).value)
    /\ parse_response(agent, r, ctx).confidence >= confidence_threshold(agent)

\* the calls of vllm.extract_btrads_info the loop of lines 117-148 makes
RECURSIVE VLLM_attempts_made(_, _, _, _)
VLLM_attempts_made(agent, attempts, ctx, i) ==
    IF i > max_retries THEN 0
    ELSE IF attempts[i].fmt = "raise"
    THEN (IF i = max_retries THEN 1
          ELSE 1 + VLLM_attempts_made(agent, attempts, ctx, i + 1))
    ELSE IF AttemptSucceeds(agent, attempts[i], ctx) THEN 1
    ELSE 1 + VLLM_attempts_made(agent, attempts, ctx, i + 1)

InitRetry ==
    /\ orch = "langgraph"
    /\ agent_mode = "vllm"
    /\ service = "patient_service_sqlite"
    /\ failing = {}
    /\ task = [t \in Tasks |-> FreeTask]
    /\ processing_tasks = [p \in Patients |-> 0]
    /\ active_sessions = [p \in Patients |-> 0]
    /\ sess = [t \in Tasks |-> NoSession]
    /\ events = [t \in Tasks |-> FALSE]
    /\ lg = [t \in Tasks |-> NoBTRADSState]
    /\ reply = NoReply
    /\ active_connections = [p \in Patients |-> "none"]
    /\ flowchart = _build_flowchart
    /\ fin \in RetryInputs
    /\ fout = <<>>

call_VLLMBaseAgent_extract ==
    Returns("VLLMBaseAgent.extract",
            [result |-> VLLM_extract(fin.agent, fin.attempts, fin.ctx),
             attempts |-> VLLM_attempts_made(fin.agent, fin.attempts, fin.ctx, 1)])

NextRetry == call_VLLMBaseAgent_extract

SpecRetry == InitRetry /\ [][NextRetry]_vars

\* the first attempt that is valid with enough confidence, 0 if none is
FirstSuccess(agent, attempts, ctx) ==
    IF \E i \in 1..max_retries : AttemptSucceeds(agent, attempts[i], ctx)
    THEN CHOOSE i \in 1..max_retries :
            /\ AttemptSucceeds(agent, attempts[i], ctx)
            /\ \A j \in 1..(i - 1) : ~AttemptSucceeds(agent, attempts[j], ctx)
    ELSE 0

\* C38: VLLMBaseAgent.extract makes at most max_retries attempts, stops
\* at the first attempt whose value is valid with a confidence at or
\* above the threshold and returns that attempt's value, and never
\* raises: when no attempt up to and including the final one succeeds it
\* returns the error result, with confidence 0 and a MissingInfo entry
C38_BoundedRetriesThenErrorResult ==
    (fin \in RetryInputs /\ fout # <<>>) =>
        LET out == fout[1]
            first == FirstSuccess(fin.agent, fin.attempts, fin.ctx)
        IN  /\ out.attempts <= max_retries
            /\ first > 0 =>
                  /\ out.attempts = first
                  /\ ~out.result.error
                  /\ out.result.value = parse_response(fin.agent, fin.attempts[first], fin.ctx).value
            /\ first = 0 =>
                  /\ out.result.error
                  /\ out.result.confidence = 0
                  /\ out.result.missing


(* ------------------------------------------------------------------ *)
(* The processing status of a patient.  fin holds the patients table   *)
(* (processing_status, completed, btrads_result of each row) and, for  *)
(* each task slot, how far the service has come with its writes:       *)
(* "new", then "updated" (patient_service.py: status set before the    *)
(* task is created) or "running" (patient_service_sqlite.py: status    *)
(* set by the task itself), then "recorded" once the final status is   *)
(* written.  The statements are taken to execute as written.           *)
(* ------------------------------------------------------------------ *)
PatientRecord(processing_status, completed, btrads_result) ==
    [processing_status |-> processing_status, completed |-> completed,
     btrads_result |-> btrads_result]

\* models.patient.ProcessingStatus, imported by patient_service_sqlite.py
ProcessingStatus ==
    [PROCESSING |-> "processing", COMPLETED |-> "completed", ERROR |-> "error"]

\* patient_service.py _update_status
_update_status(patients, patient_id, status) ==
    [patients EXCEPT ![patient_id].processing_status = status]

\* patient_service_sqlite.py update_patient_status
update_patient_status(patients, patient_id, status, btrads_result) ==
    [patients EXCEPT ![patient_id] =
        PatientRecord(status,
                      @.completed \/ status = "completed",
                      IF btrads_result # None THEN btrads_result ELSE @.btrads_result)]

InitStatus ==
    /\ \E c \in {<<"simple", "mock">>, <<"langgraph", "mock">>} :
          orch = c[1] /\ agent_mode = c[2]
    /\ service \in {"patient_service", "patient_service_sqlite"}
    /\ failing = {}
    /\ task = [t \in Tasks |-> FreeTask]
    /\ processing_tasks = [p \in Patients |-> 0]
    /\ active_sessions = [p \in Patients |-> 0]
    /\ sess = [t \in Tasks |-> NoSession]
    /\ events = [t \in Tasks |-> FALSE]
    /\ lg = [t \in Tasks |-> NoBTRADSState]
    /\ reply = NoReply
    /\ active_connections = [p \in Patients |-> "none"]
    /\ flowchart = _build_flowchart
    /\ fin = [patients |-> [p \in Patients |-> PatientRecord("pending", FALSE, None)],
              stage |-> [t \in Tasks |-> "new"]]
    /\ fout = ""

\* patient_service.py start_processing line 277
start_processing_update_status(t) ==
    /\ service = "patient_service"
    /\ task[t].pc = "starting"
    /\ fin.stage[t] = "new"
    /\ fin' = [fin EXCEPT !.patients = _update_status(@, task[t].patient, "processing"),
                          !.stage[t] = "updated"]
    /\ UNCHANGED <<fout, sysvars, flowchart>>

\* json.dumps(result.dict()) of line 307: the dict holds the datetime
\* objects started_at and completed_at of BTRADSResult
json_dumps_result_dict == "TypeError"

\* _handle_completion whose except branch leaves the status alone
_handle_completion_update_no_except(t) ==
    /\ task[t].hc = "pending"
    /\ fin.stage[t] = "updated"
    /\ fin' = [fin EXCEPT !.stage[t] = "recorded"]
    /\ UNCHANGED <<fout, sysvars, flowchart>>

\* patient_service.py _handle_completion lines 290-317, up to the finally
_handle_completion_update(t) ==
    /\ task[t].hc = "pending"
    /\ fin.stage[t] = "updated"
    /\ fin' = [fin EXCEPT
          !.patients =
              IF task[t].outcome.kind = "result" /\ json_dumps_result_dict # "TypeError"
              THEN [@ EXCEPT ![task[t].patient] =
                       PatientRecord("completed", TRUE, Some("result"))]
              ELSE _update_status(@, task[t].patient, "error"),
          !.stage[t] = "recorded"]
    /\ UNCHANGED <<fout, sysvars, flowchart>>

\* patient_service_sqlite.py process_patient lines 384-395
sqlite_process_patient_begin(t) ==
    /\ service = "patient_service_sqlite"
    /\ task[t].pc = "created"
    /\ fin.stage[t] = "new"
    /\ fin' = [fin EXCEPT
          !.patients = update_patient_status(@, task[t].patient,
                                             ProcessingStatus.PROCESSING, None),
          !.stage[t] = "running"]
    /\ UNCHANGED <<fout, sysvars, flowchart>>

\* patient_service_sqlite.py process_patient lines 404-438
sqlite_process_patient_end(t) ==
    /\ service = "patient_service_sqlite"
    /\ Done(t)
    /\ fin.stage[t] = "running"
    /\ fin' = [fin EXCEPT
          !.patients =
              IF task[t].outcome.kind = "result"
              THEN update_patient_status(@, task[t].patient,
                                         ProcessingStatus.COMPLETED, Some("result"))
              ELSE update_patient_status(@, task[t].patient,
                                         ProcessingStatus.ERROR, Some("error")),
          !.stage[t] = "recorded"]
    /\ UNCHANGED <<fout, sysvars, flowchart>>

\* the orchestrator coroutine of a task may run: with
\* patient_service_sqlite.py only once the task has set the status
CanRun(t) == service = "patient_service_sqlite" => fin.stage[t] = "running"

\* the task registered for the patient has left the orchestrator and is
\* writing its final status: task.done() is still false, and a request
\* made now is answered "already_processing" and changes nothing
Ending(p) ==
    /\ processing_tasks[p] # 0
    /\ Done(processing_tasks[p])
    /\ fin.stage[processing_tasks[p]] # "recorded"

\* the steps the event loop takes for task slot t
TaskStep(t) ==
    \/ start_processing_update_status(t)
    \/ fin.stage[t] = "updated" /\ start_processing_create(t)
    \/ _handle_completion_update(t)
    \/ fin.stage[t] = "recorded" /\ _handle_completion(t)
    \/ sqlite_process_patient_begin(t)
    \/ sqlite_process_patient_end(t)
    \/ CanRun(t) /\ process_patient(t)
    \/ _process_node(t)
    \/ _run_agent(t)
    \/ _wait_for_validation(t)
    \/ CanRun(t) /\ lg_process_patient(t)
    \/ lg_node(t)
    \/ lg_terminal(t)

NextStatus ==
    \/ \E t \in Tasks, p \in Patients, auto_validate \in BOOLEAN :
          start_processing_check(t, p, auto_validate)
    \/ \E t \in Tasks, p \in Patients, auto_validate \in BOOLEAN :
          ~Ending(p) /\ sqlite_start_processing(t, p, auto_validate)
    \/ \E patient_id \in Patients, validation_id \in IssuedIds \cup {StaleId} :
          \E validated_value \in ValidatedValues(validation_id[1], validation_id[2]) :
             validate_result(patient_id, validation_id, validated_value)
    \/ \E t \in Tasks : TaskStep(t)

\* the event loop runs every step that is ready; nothing obliges a
\* caller to start a patient or a clinician to validate
SpecStatus ==
    /\ InitStatus
    /\ [][NextStatus]_vars
    /\ \A t \in Tasks : WF_vars(TaskStep(t))

\* a request or a task of the patient has not yet written its final status
InFlight(p) ==
    \E t \in Tasks : /\ task[t].patient = p
                     /\ task[t].pc \notin {"free", "rejected"}
                     /\ fin.stage[t] # "recorded"

FinalStatus(row) ==
    \/ row.processing_status = "completed" /\ row.btrads_result = Some("result")
    \/ row.processing_status = "error"

====
